---- MODULE Spec2Model ----
(***************************************************************************)
(* Model of the otel-front backend: the OTLP trace transformer             *)
(* (internal/exporter), the trace and log repositories (internal/store)    *)
(* and the ingestion receiver (internal/receiver).                         *)
(*                                                                         *)
(* The specifications share the variables:                                 *)
(*   SpecTransform  the span loop of TransformTraces over bounded batches  *)
(*   Spec           OTLP trace ingestion: processTraces, and InsertTrace   *)
(*                  statement by statement in its transaction              *)
(*   SpecRead       the same ingestion with a concurrent GetTraceByID      *)
(*   SpecLogs       log inserts and the GetLogs / CountLogs /              *)
(*                  GetLogsByTraceID queries                               *)
(*   SpecQuery      committed trace inserts and the GetTraces query        *)
(*   SpecMetrics    metric inserts and AggregateMetrics                    *)
(*   SpecMigrate    NewStore, Migrate (repeated) and log inserts           *)
(*   SpecCompare    committed trace inserts and CompareTraces              *)
(*   SpecTransformMetrics  the metric loop of TransformMetrics             *)
(*   SpecReceiver   the OTLP HTTP endpoints, request by request            *)
(*   SpecEndToEnd   one export of a root and a child span, then its read   *)
(*   SpecInsertLogs InsertLogs statement by statement in its transaction   *)
(*   SpecMerge      mergeAttributes on a heap of Go maps, then writes to   *)
(*                  the map it returned                                    *)
(*   SpecTraceHandler  committed trace inserts and GET /api/traces/{id}    *)
(*                  with the storage failures its statements can meet      *)
(*   SpecRetry      a log or metric export request and its retries         *)
(*   SpecLifecycle  main from the start of the receivers to its return:    *)
(*                  the goroutines of the listeners, the signal, the       *)
(*                  shutdown of the query API, OTLPReceiver.Stop           *)
(*   SpecLifecycleFair  the same, where the bounded shutdown returns       *)
(***************************************************************************)
EXTENDS Integers, Sequences, FiniteSets, TLC

\* ------------------------------------------------------------------ bounds
MaxSpans == 3          \* spans in one batch given to TransformTraces
MaxBatch == 2          \* spans in one OTLP export request
MaxRequests == 2       \* export requests ingested (Spec)
MaxReadRequests == 1   \* export requests ingested beside a reader (SpecRead)
MaxLogs == 2           \* rows of table logs (SpecLogs)
MaxMetrics == 2        \* rows of table metrics (SpecMetrics)
MaxMigrations == 2     \* calls of Migrate (SpecMigrate)
MaxCompareIDs == 5     \* trace ids of a compare request (SpecCompare)
MaxMetricBatch == 2    \* metrics of a batch (SpecTransformMetrics)
MaxDataPoints == 2     \* data points of a metric (SpecTransformMetrics)
MaxHTTPRequests == 2   \* OTLP HTTP requests (SpecReceiver)
MaxInsertLogsCalls == 2 \* InsertLogs calls (SpecInsertLogs)
MaxWrites == 2         \* writes to a merged attribute map (SpecMerge)
MaxExportRecords == 2  \* records of one log or metric export (SpecRetry)
MaxAttempts == 2       \* times one export request is sent (SpecRetry)
MaxInFlight == 1       \* requests the query API serves at once (SpecLifecycle)

\* -------------------------------------------------------- program constants
NsPerMs == 1000000     \* the 1e6 divisor of DurationMs
StatusCodeError == 2   \* ptrace.StatusCodeError

\* ------------------------------------------------------------ value domains
TraceIDs == {"t1", "t2"}
StatusCodes == {1, StatusCodeError}
\* Start and end timestamps of a span, in nanoseconds.
SpanTimes == {<<0, 1500000>>, <<0, 4500000>>, <<1500000, 4500000>>}

\* A Go map[string]interface{}: nil and the empty map are different values.
NilMap == [isNil |-> TRUE, kv |-> <<>>]
MkMap(f) == [isNil |-> FALSE, kv |-> f]

\* Go integer division truncates toward zero; \div floors.
TruncDiv(a, b) == IF a >= 0 THEN a \div b ELSE -((-a) \div b)

\* time.Duration.Milliseconds()
Milliseconds(d) == TruncDiv(d, NsPerMs)

\* extractServiceName: the "service.name" resource attribute, else "unknown".
extractServiceName(attrs) ==
    IF ~attrs.isNil /\ "service.name" \in DOMAIN attrs.kv
    THEN attrs.kv["service.name"]
    ELSE "unknown"

\* mergeAttributes: a fresh non-nil map, m1's entries overwritten by m2's.
mergeAttributes(m1, m2) ==
    LET k1 == IF m1.isNil THEN {} ELSE DOMAIN m1.kv
        k2 == IF m2.isNil THEN {} ELSE DOMAIN m2.kv
    IN MkMap([k \in k1 \cup k2 |-> IF k \in k2 THEN m2.kv[k] ELSE m1.kv[k]])

\* The resources an export request can carry (their attribute maps).
ResourceAttrs ==
    << MkMap("service.name" :> "svc1"),
       MkMap(("service.name" :> "svc2") @@ ("env" :> "prod")) >>

\* Span attribute maps; attributesToMap gives nil for a span without any.
SpanAttrs == << NilMap, MkMap("env" :> "dev") >>

\* An OTLP span as TransformTraces iterates it.  The resource / scope / span
\* nesting is kept as the span's resource index: a batch is the sequence of
\* its spans in iteration order (resource-major), so res never decreases.
OtlpSpan(res, tid, sid, start, end, code) ==
    [res |-> res, traceID |-> tid, spanID |-> sid, parent |-> "",
     name |-> IF code = StatusCodeError THEN "op-b" ELSE "op-a",
     start |-> start, end |-> end, status |-> code,
     attrs |-> SpanAttrs[res]]

\* Variant of ConvertSpan that never sets the parent span id.
ConvertSpanNoParent(e) ==
    [SpanID |-> e.spanID, TraceID |-> e.traceID, ParentSpanID |-> "",
     ServiceName |-> extractServiceName(ResourceAttrs[e.res]),
     OperationName |-> e.name,
     StartTime |-> e.start, EndTime |-> e.end,
     DurationMs |-> TruncDiv(e.end - e.start, NsPerMs),
     StatusCode |-> e.status, Attributes |-> e.attrs]

\* convertedSpan := store.Span{...}; ParentSpanID is the pointer set for a
\* non-empty parent span id, nil (written "") otherwise.
ConvertSpan(e) ==
    [SpanID |-> e.spanID, TraceID |-> e.traceID, ParentSpanID |-> e.parent,
     ServiceName |-> extractServiceName(ResourceAttrs[e.res]),
     OperationName |-> e.name,
     StartTime |-> e.start, EndTime |-> e.end,
     DurationMs |-> TruncDiv(e.end - e.start, NsPerMs),
     StatusCode |-> e.status, Attributes |-> e.attrs]

\* traces[traceID] = &store.Trace{...}: the aggregate seeded by its first span.
SeedTrace(e, c) ==
    [TraceID |-> e.traceID, ServiceName |-> c.ServiceName,
     OperationName |-> e.name,
     StartTime |-> c.StartTime, EndTime |-> c.EndTime,
     DurationMs |-> c.DurationMs, SpanCount |-> 1, ErrorCount |-> 0,
     StatusCode |-> c.StatusCode,
     Attributes |-> mergeAttributes(ResourceAttrs[e.res], c.Attributes),
     Spans |-> <<>>]

\* Variant of UpdateTrace that leaves SpanCount as the first span set it.
UpdateTraceNoCount(trace, c) ==
    LET t2 == IF c.StartTime < trace.StartTime
              THEN [trace EXCEPT !.StartTime = c.StartTime] ELSE trace
        t3 == IF c.EndTime > t2.EndTime
              THEN [t2 EXCEPT !.EndTime = c.EndTime,
                              !.DurationMs = Milliseconds(c.EndTime - t2.StartTime)]
              ELSE t2
    IN IF c.StatusCode = StatusCodeError
       THEN [t3 EXCEPT !.ErrorCount = @ + 1] ELSE t3

\* Variant of UpdateTrace in which a later span also renames the trace.
UpdateTraceTakesName(trace, c) ==
    [trace EXCEPT !.SpanCount = @ + 1, !.OperationName = c.OperationName]

\* Variant of UpdateTrace that leaves StartTime as the first span set it.
UpdateTraceKeepsStart(trace, c) ==
    LET t1 == [trace EXCEPT !.SpanCount = @ + 1]
    IN IF c.EndTime > t1.EndTime
       THEN [t1 EXCEPT !.EndTime = c.EndTime,
                       !.DurationMs = Milliseconds(c.EndTime - t1.StartTime)]
       ELSE t1

\* The else-branch: a later span of a known trace updates its aggregate.
UpdateTrace(trace, c) ==
    LET t1 == [trace EXCEPT !.SpanCount = @ + 1]
        t2 == IF c.StartTime < t1.StartTime
              THEN [t1 EXCEPT !.StartTime = c.StartTime] ELSE t1
        t3 == IF c.EndTime > t2.EndTime
              THEN [t2 EXCEPT !.EndTime = c.EndTime,
                              !.DurationMs = Milliseconds(c.EndTime - t2.StartTime)]
              ELSE t2
    IN IF c.StatusCode = StatusCodeError
       THEN [t3 EXCEPT !.ErrorCount = @ + 1] ELSE t3

\* One iteration of the span loop on the two working maps.
StepSpan(acc, e) ==
    LET c == ConvertSpan(e)
        tid == e.traceID
        old == IF tid \in DOMAIN acc.allSpans THEN acc.allSpans[tid] ELSE <<>>
        spans2 == (tid :> Append(old, c)) @@ acc.allSpans
        traces2 == IF tid \notin DOMAIN acc.traces
                   THEN (tid :> SeedTrace(e, c)) @@ acc.traces
                   ELSE (tid :> UpdateTrace(acc.traces[tid], c)) @@ acc.traces
    IN [traces |-> traces2, allSpans |-> spans2]

EmptyAcc == [traces |-> <<>>, allSpans |-> <<>>]

\* The whole span loop.
RECURSIVE FoldSpans(_, _)
FoldSpans(acc, batch) ==
    IF batch = <<>> THEN acc
    ELSE FoldSpans(StepSpan(acc, Head(batch)), Tail(batch))

\* All orders of a finite set as sequences (Go map iteration order).
Perms(S) ==
    {p \in [1..Cardinality(S) -> S] : \A x \in S : \E i \in DOMAIN p : p[i] = x}

\* "Attach spans to traces": the result list in one map-iteration order.
AttachSpans(acc, order) ==
    [i \in DOMAIN order |->
        [acc.traces[order[i]] EXCEPT !.Spans = acc.allSpans[order[i]]]]

\* The possible return values of TransformTraces(batch).
TransformTraces(batch) ==
    LET acc == FoldSpans(EmptyAcc, batch)
    IN {AttachSpans(acc, p) : p \in Perms(DOMAIN acc.traces)}

\* ------------------------------------------------------------ the store
\* json.Marshal of an attribute map and the decoding of the JSON column.
jsonMarshal(m) == IF m.isNil THEN [null |-> TRUE, obj |-> <<>>]
                  ELSE [null |-> FALSE, obj |-> m.kv]

jsonUnmarshal(j) == IF j.null THEN NilMap ELSE MkMap(j.obj)

\* The row of table traces written by the INSERT of InsertTrace.
TraceRow(trace) ==
    [trace_id |-> trace.TraceID, service_name |-> trace.ServiceName,
     operation_name |-> trace.OperationName,
     start_time |-> trace.StartTime, end_time |-> trace.EndTime,
     duration_ms |-> trace.DurationMs, span_count |-> trace.SpanCount,
     error_count |-> trace.ErrorCount, status_code |-> trace.StatusCode,
     attributes |-> jsonMarshal(trace.Attributes)]

\* Variant of UpsertTrace that replaces the whole row on conflict.
UpsertTraceReplace(tbl, trace) ==
    (trace.TraceID :> TraceRow(trace)) @@ tbl

\* INSERT INTO traces ... ON CONFLICT (trace_id) DO UPDATE SET end_time,
\* duration_ms, span_count, error_count = EXCLUDED.*
UpsertTrace(tbl, trace) ==
    LET id == trace.TraceID
    IN IF id \in DOMAIN tbl
       THEN (id :> [tbl[id] EXCEPT !.end_time = trace.EndTime,
                                   !.duration_ms = trace.DurationMs,
                                   !.span_count = trace.SpanCount,
                                   !.error_count = trace.ErrorCount]) @@ tbl
       ELSE (id :> TraceRow(trace)) @@ tbl

\* The row of table spans written by insertSpan.
SpanRow(span) ==
    [span_id |-> span.SpanID, trace_id |-> span.TraceID,
     parent_span_id |-> span.ParentSpanID,
     service_name |-> span.ServiceName, operation_name |-> span.OperationName,
     start_time |-> span.StartTime, end_time |-> span.EndTime,
     duration_ms |-> span.DurationMs, status_code |-> span.StatusCode,
     attributes |-> jsonMarshal(span.Attributes)]

\* Variant of insertSpan that overwrites the stored row on conflict.
insertSpanOverwrite(tbl, span) ==
    [tbl |-> (span.SpanID :> SpanRow(span)) @@ tbl, err |-> FALSE]

\* insertSpan: INSERT INTO spans ... ON CONFLICT (span_id) DO NOTHING.
\* Gives the table after the statement and whether the statement failed
\* on the primary key.
insertSpan(tbl, span) ==
    IF span.SpanID \in DOMAIN tbl
    THEN [tbl |-> tbl, err |-> FALSE]
    ELSE [tbl |-> (span.SpanID :> SpanRow(span)) @@ tbl, err |-> FALSE]

\* rows.Scan of a row of table traces into a Trace (Spans not yet set).
ScanTrace(row) ==
    [TraceID |-> row.trace_id, ServiceName |-> row.service_name,
     OperationName |-> row.operation_name,
     StartTime |-> row.start_time, EndTime |-> row.end_time,
     DurationMs |-> row.duration_ms, SpanCount |-> row.span_count,
     ErrorCount |-> row.error_count, StatusCode |-> row.status_code,
     Attributes |-> jsonUnmarshal(row.attributes), Spans |-> <<>>]

\* rows.Scan of a row of table spans into a Span.
ScanSpan(row) ==
    [SpanID |-> row.span_id, TraceID |-> row.trace_id,
     ParentSpanID |-> row.parent_span_id,
     ServiceName |-> row.service_name, OperationName |-> row.operation_name,
     StartTime |-> row.start_time, EndTime |-> row.end_time,
     DurationMs |-> row.duration_ms, StatusCode |-> row.status_code,
     Attributes |-> jsonUnmarshal(row.attributes)]

\* The rows SELECT ... FROM spans WHERE trace_id = ? matches.
SpansWhere(tbl, traceID) ==
    {tbl[s] : s \in {x \in DOMAIN tbl : tbl[x].trace_id = traceID}}

\* Variant of OrderByStartAsc that sorts by start_time descending.
OrderByStartDesc(rows) ==
    {p \in Perms(rows) :
        \A i, j \in DOMAIN p : i < j => p[i].start_time >= p[j].start_time}

\* ORDER BY start_time ASC: rows with equal start_time come in any order.
OrderByStartAsc(rows) ==
    {p \in Perms(rows) :
        \A i, j \in DOMAIN p : i < j => p[i].start_time <= p[j].start_time}

\* getSpansByTraceID: the possible results on table tbl.
getSpansByTraceID(tbl, traceID) ==
    {[i \in DOMAIN p |-> ScanSpan(p[i])] :
        p \in OrderByStartAsc(SpansWhere(tbl, traceID))}

\* The characters of the trace ids and operation names of the model.
Chars(str) ==
    CASE str = "t1" -> <<"t", "1">>
      [] str = "t2" -> <<"t", "2">>
      [] str = "op-a" -> <<"o", "p", "-", "a">>
      [] str = "op-b" -> <<"o", "p", "-", "b">>
      [] str = "A" -> <<"A">>
      [] str = "B" -> <<"B">>
      [] OTHER -> <<>>

\* str LIKE pat on character sequences: in the pattern % stands for any
\* run of characters and _ for any one character; there is no escape.
RECURSIVE LikeMatch(_, _)
LikeMatch(str, pat) ==
    IF pat = <<>> THEN str = <<>>
    ELSE IF Head(pat) = "%"
         THEN \/ LikeMatch(str, Tail(pat))
              \/ (str # <<>> /\ LikeMatch(Tail(str), pat))
         ELSE /\ str # <<>>
              /\ (Head(pat) = "_" \/ Head(pat) = Head(str))
              /\ LikeMatch(Tail(str), Tail(pat))

\* searchPattern := "%" + filters.Search + "%"; column LIKE searchPattern.
LikeChars(str, search) == LikeMatch(str, <<"%">> \o search \o <<"%">>)

\* The WHERE clause GetTraces builds from the filters.
GetTracesWhere(row, f) ==
    /\ f.ServiceName # "" => row.service_name = f.ServiceName
    /\ f.MinDuration > 0 => row.duration_ms >= f.MinDuration
    /\ f.MaxDuration > 0 => row.duration_ms <= f.MaxDuration
    /\ f.HasErrors => row.error_count > 0
    /\ f.Search # <<>> => \/ LikeChars(Chars(row.operation_name), f.Search)
                          \/ LikeChars(Chars(row.trace_id), f.Search)
    /\ f.StartTime # 0 => row.start_time >= f.StartTime
    /\ f.EndTime # 0 => row.start_time <= f.EndTime

\* ORDER BY start_time DESC: rows with equal start_time come in any order.
OrderByStartTimeDesc(rows) ==
    {p \in Perms(rows) :
        \A i, j \in DOMAIN p : i < j => p[i].start_time >= p[j].start_time}

\* LIMIT limit OFFSET offset of a row sequence.
PageOf(p, limit, offset) ==
    LET n == IF Len(p) - offset < limit THEN Len(p) - offset ELSE limit
    IN IF n <= 0 THEN <<>> ELSE [i \in 1..n |-> p[offset + i]]

\* GetTraces: the possible result lists on table tbl.
GetTraces(tbl, f) ==
    {[i \in DOMAIN pg |-> ScanTrace(pg[i])] :
        pg \in {PageOf(p, f.Limit, f.Offset) :
                  p \in OrderByStartTimeDesc(
                           {tbl[x] : x \in {y \in DOMAIN tbl :
                                               GetTracesWhere(tbl[y], f)}})}}

\* InsertTrace run to its commit on committed tables: the upsert, then the
\* span inserts in list order.
RECURSIVE InsertSpans(_, _)
InsertSpans(tbl, spans) ==
    IF spans = <<>> THEN tbl
    ELSE InsertSpans(insertSpan(tbl, Head(spans)).tbl, Tail(spans))

\* ------------------------------------------------------------ table logs
\* body LIKE '%pat%': pat is a run of consecutive characters of str.
Like(str, pat) ==
    \E i \in 0..(Len(str) - Len(pat)) :
        \A k \in 1..Len(pat) : str[i + k] = pat[k]

\* Variant of GetLogsWhere whose severity bound is exclusive.
GetLogsWhereStrict(row, f) ==
    /\ f.StartTime # 0 => row.timestamp >= f.StartTime
    /\ f.EndTime # 0 => row.timestamp <= f.EndTime
    /\ f.ServiceName # "" => row.service_name = f.ServiceName
    /\ f.TraceID # "" => (row.trace_id # "" /\ row.trace_id = f.TraceID)
    /\ f.MinSeverity > 0 => row.severity_number > f.MinSeverity
    /\ f.SearchText # <<>> => Like(row.body, f.SearchText)

\* The WHERE clause GetLogs builds from the filters.  A zero time, an empty
\* string and a severity of 0 or less add no condition; a NULL trace_id
\* (written "") equals no trace id.
GetLogsWhere(row, f) ==
    /\ f.StartTime # 0 => row.timestamp >= f.StartTime
    /\ f.EndTime # 0 => row.timestamp <= f.EndTime
    /\ f.ServiceName # "" => row.service_name = f.ServiceName
    /\ f.TraceID # "" => (row.trace_id # "" /\ row.trace_id = f.TraceID)
    /\ f.MinSeverity > 0 => row.severity_number >= f.MinSeverity
    /\ f.SearchText # <<>> => Like(row.body, f.SearchText)

\* The WHERE clause CountLogs builds from the filters.
CountLogsWhere(row, f) ==
    /\ f.StartTime # 0 => row.timestamp >= f.StartTime
    /\ f.EndTime # 0 => row.timestamp <= f.EndTime
    /\ f.ServiceName # "" => row.service_name = f.ServiceName
    /\ f.MinSeverity > 0 => row.severity_number >= f.MinSeverity
    /\ f.SearchText # <<>> => Like(row.body, f.SearchText)

\* ORDER BY timestamp DESC: rows with equal timestamp come in any order.
OrderByTimestampDesc(rows) ==
    {p \in Perms(rows) :
        \A i, j \in DOMAIN p : i < j => p[i].timestamp >= p[j].timestamp}

\* LIMIT limit OFFSET offset of a row sequence.
LimitOffset(p, limit, offset) ==
    LET n == IF Len(p) - offset < limit THEN Len(p) - offset ELSE limit
    IN IF n <= 0 THEN <<>> ELSE [i \in 1..n |-> p[offset + i]]

\* GetLogs: the possible result pages on table tbl.
GetLogs(tbl, f) ==
    {LimitOffset(p, f.Limit, f.Offset) :
        p \in OrderByTimestampDesc(
                 {tbl[k] : k \in {x \in DOMAIN tbl : GetLogsWhere(tbl[x], f)}})}

\* Variant of LogsOfTrace that also matches the rows without a trace id.
LogsOfTraceOrNull(tbl, traceID) ==
    {tbl[x] : x \in {y \in DOMAIN tbl :
                        tbl[y].trace_id = "" \/ tbl[y].trace_id = traceID}}

\* GetLogsByTraceID: the rows WHERE trace_id = ? matches; a NULL trace_id
\* (written "") equals nothing.
LogsOfTrace(tbl, traceID) ==
    {tbl[x] : x \in {y \in DOMAIN tbl :
                        tbl[y].trace_id # "" /\ tbl[y].trace_id = traceID}}

\* ORDER BY timestamp ASC: rows with equal timestamp come in any order.
OrderByTimestampAsc(rows) ==
    {p \in Perms(rows) :
        \A i, j \in DOMAIN p : i < j => p[i].timestamp <= p[j].timestamp}

\* GetLogsByTraceID: the possible results on table tbl.
GetLogsByTraceID(tbl, traceID) == OrderByTimestampAsc(LogsOfTrace(tbl, traceID))

\* CountLogs: SELECT COUNT(*) FROM logs under its own WHERE clause.
CountLogs(tbl, f) ==
    Cardinality({x \in DOMAIN tbl : CountLogsWhere(tbl[x], f)})

\* --------------------------------------------------------- table metrics
\* parseBucketSizeToSeconds
parseBucketSizeToSeconds(bucketSize) ==
    CASE bucketSize = "1 minute" -> 60
      [] bucketSize = "5 minutes" -> 300
      [] bucketSize = "15 minutes" -> 900
      [] bucketSize = "30 minutes" -> 1800
      [] bucketSize = "1 hour" -> 3600
      [] bucketSize = "6 hours" -> 21600
      [] OTHER -> 60

\* The SQL function AggregateMetrics picks; AVG when the name is unknown.
AggFunc(aggregation) ==
    CASE aggregation = "sum" -> "SUM"
      [] aggregation = "min" -> "MIN"
      [] aggregation = "max" -> "MAX"
      [] aggregation = "count" -> "COUNT"
      [] OTHER -> "AVG"

\* The bucket expression
\*   to_timestamp((CAST(EXTRACT(epoch FROM timestamp) AS BIGINT) / W) * W)
\* as DuckDB evaluates it, in epoch seconds of a whole-second timestamp.
\* The operator / of the DuckDB the v2 driver embeds is floating-point
\* division on integers too (integer division is written //, and the
\* integer_division setting is left at its default), so the quotient
\* keeps its fraction and the product with W is the epoch second again.
BucketExpr(ts, w) ==
    LET quotient == [num |-> ts, den |-> w]
    IN (quotient.num * w) \div quotient.den

\* SUM(value) over a set of rows.
RECURSIVE SumValue(_)
SumValue(rows) ==
    IF rows = {} THEN 0
    ELSE LET r == CHOOSE x \in rows : TRUE
         IN r.value + SumValue(rows \ {r})

\* fn(value) over the rows of one group; the double is kept as a fraction.
AggValue(fn, rows) ==
    CASE fn = "SUM" -> [num |-> SumValue(rows), den |-> 1]
      [] fn = "COUNT" -> [num |-> Cardinality(rows), den |-> 1]
      [] fn = "MIN" ->
            [num |-> (CHOOSE r \in rows : \A o \in rows : r.value <= o.value).value,
             den |-> 1]
      [] fn = "MAX" ->
            [num |-> (CHOOSE r \in rows : \A o \in rows : r.value >= o.value).value,
             den |-> 1]
      [] OTHER -> [num |-> SumValue(rows), den |-> Cardinality(rows)]

\* The WHERE clause of AggregateMetrics.
AggregateWhere(row, req) ==
    /\ row.metric_name = req.MetricName
    /\ row.timestamp >= req.StartTime
    /\ row.timestamp <= req.EndTime
    /\ req.ServiceName # "" => row.service_name = req.ServiceName

\* A finite set of integers as the ascending sequence (ORDER BY bucket ASC).
SortAsc(S) ==
    CHOOSE p \in [1..Cardinality(S) -> S] :
        \A i, j \in 1..Cardinality(S) : i < j => p[i] < p[j]

\* AggregateMetrics: GROUP BY bucket ORDER BY bucket ASC, one
\* AggregationResult per group.
AggregateMetrics(tbl, req) ==
    LET w == parseBucketSizeToSeconds(req.BucketSize)
        rows == {tbl[x] : x \in {y \in DOMAIN tbl : AggregateWhere(tbl[y], req)}}
        buckets == SortAsc({BucketExpr(r.timestamp, w) : r \in rows})
    IN [i \in DOMAIN buckets |->
          [TimeBucket |-> buckets[i], MetricName |-> req.MetricName,
           AggregationType |-> req.Aggregation,
           Value |-> AggValue(AggFunc(req.Aggregation),
                              {r \in rows :
                                  BucketExpr(r.timestamp, w) = buckets[i]})]]

\* Commit history: for each span id a committed call carries, the row made
\* from the first span of the call that has this id.
FirstInserts(spans) ==
    [sid \in {spans[k].SpanID : k \in DOMAIN spans} |->
        SpanRow(spans[CHOOSE k \in DOMAIN spans :
                        /\ spans[k].SpanID = sid
                        /\ \A j \in 1..(k - 1) : spans[j].SpanID # sid])]

\* ---------------------------------------------------- TransformMetrics
\* attributesToMap: nil for an OTLP map without entries.
attributesToMap(attrs) ==
    IF DOMAIN attrs = {} THEN NilMap ELSE MkMap(attrs)

\* attrs[k] = v on a Go map: a run-time panic ("assignment to entry in nil
\* map") when the map is nil.  A panic stays a panic.
MapAssign(r, k, v) ==
    IF r.panic \/ r.map.isNil THEN [panic |-> TRUE, map |-> NilMap]
    ELSE [panic |-> FALSE,
          map |-> MkMap([x \in DOMAIN r.map.kv \cup {k} |->
                           IF x = k THEN v ELSE r.map.kv[x]])]

\* extractNumericValue, on data points that carry an int or a double.
extractNumericValue(dp) == dp.value

\* The record of one data point of a gauge ("gauge") or a sum ("sum").
NumberRecord(type, dp, m) ==
    [Timestamp |-> dp.ts, MetricName |-> m.name, MetricType |-> type,
     ServiceName |-> extractServiceName(attributesToMap(ResourceAttrs[m.res].kv)),
     Value |-> extractNumericValue(dp),
     Attributes |-> mergeAttributes(attributesToMap(ResourceAttrs[m.res].kv),
                                    attributesToMap(dp.attrs))]

\* The attrs map transformHistogram, transformExponentialHistogram and
\* transformSummary fill for one data point before they build the record.
PointAttrs(type, dp) ==
    LET a0 == [panic |-> FALSE, map |-> attributesToMap(dp.attrs)]
        a1 == MapAssign(a0, "count", dp.count)
        a2 == MapAssign(a1, "sum", dp.sum)
    IN CASE type = "histogram" -> MapAssign(a2, "buckets", dp.buckets)
         [] type = "exponential_histogram" -> MapAssign(a2, "scale", dp.scale)
         [] OTHER -> MapAssign(a2, "quantiles", dp.quantiles)

\* The record of one data point of a histogram, an exponential histogram
\* or a summary, once its attrs are filled.
DistributionRecord(type, dp, m, attrs) ==
    [Timestamp |-> dp.ts, MetricName |-> m.name, MetricType |-> type,
     ServiceName |-> extractServiceName(attributesToMap(ResourceAttrs[m.res].kv)),
     Value |-> dp.sum,
     Attributes |-> mergeAttributes(attributesToMap(ResourceAttrs[m.res].kv),
                                    attrs)]

\* The data point loop of a transform function from index i on: the records
\* appended to acc, or a panic.
RECURSIVE DataPointLoop(_, _, _, _)
DataPointLoop(type, m, i, acc) ==
    IF i > Len(m.dps) THEN [panic |-> FALSE, records |-> acc]
    ELSE IF type \in {"gauge", "sum"}
         THEN DataPointLoop(type, m, i + 1,
                            Append(acc, NumberRecord(type, m.dps[i], m)))
         ELSE LET attrs == PointAttrs(type, m.dps[i])
              IN IF attrs.panic THEN [panic |-> TRUE, records |-> <<>>]
                 ELSE DataPointLoop(type, m, i + 1,
                                    Append(acc, DistributionRecord(
                                               type, m.dps[i], m, attrs.map)))

transformGauge(m) == DataPointLoop("gauge", m, 1, <<>>)
transformSum(m) == DataPointLoop("sum", m, 1, <<>>)
transformHistogram(m) == DataPointLoop("histogram", m, 1, <<>>)
transformExponentialHistogram(m) ==
    DataPointLoop("exponential_histogram", m, 1, <<>>)
transformSummary(m) == DataPointLoop("summary", m, 1, <<>>)

\* switch metric.Type(): the records of one metric; none for a metric of no
\* type.
TransformMetric(m) ==
    CASE m.type = "Gauge" -> transformGauge(m)
      [] m.type = "Sum" -> transformSum(m)
      [] m.type = "Histogram" -> transformHistogram(m)
      [] m.type = "ExponentialHistogram" -> transformExponentialHistogram(m)
      [] m.type = "Summary" -> transformSummary(m)
      [] OTHER -> [panic |-> FALSE, records |-> <<>>]

\* ------------------------------------------------------------- Migrate
TableNames == {"traces", "spans", "logs", "metrics"}

\* The database before any migration: NewStore opens an empty in-memory
\* database.
EmptyDb ==
    [catalog |-> {}, seqs |-> <<>>, rows |-> [t \in TableNames |-> <<>>]]

Sequence(name) == [kind |-> "sequence", name |-> name, on |-> ""]
Table(name) == [kind |-> "table", name |-> name, on |-> ""]
Index(name, table) == [kind |-> "index", name |-> name, on |-> table]

\* The statements of Migrate, in order.  needs: the objects a statement
\* refers to (the sequence of a DEFAULT nextval, the table of an index).
migrations ==
    <<[create |-> Sequence("logs_id_seq"), needs |-> {}],
      [create |-> Sequence("metrics_id_seq"), needs |-> {}],
      [create |-> Table("traces"), needs |-> {}],
      [create |-> Table("spans"), needs |-> {}],
      [create |-> Table("logs"), needs |-> {Sequence("logs_id_seq")}],
      [create |-> Table("metrics"), needs |-> {Sequence("metrics_id_seq")}],
      [create |-> Index("idx_traces_start_time", "traces"),
       needs |-> {Table("traces")}],
      [create |-> Index("idx_traces_service_name", "traces"),
       needs |-> {Table("traces")}],
      [create |-> Index("idx_spans_trace_id", "spans"),
       needs |-> {Table("spans")}],
      [create |-> Index("idx_logs_timestamp", "logs"),
       needs |-> {Table("logs")}],
      [create |-> Index("idx_logs_trace_id", "logs"),
       needs |-> {Table("logs")}],
      [create |-> Index("idx_logs_service_name", "logs"),
       needs |-> {Table("logs")}],
      [create |-> Index("idx_metrics_timestamp", "metrics"),
       needs |-> {Table("metrics")}],
      [create |-> Index("idx_metrics_name", "metrics"),
       needs |-> {Table("metrics")}],
      [create |-> Index("idx_metrics_service_name", "metrics"),
       needs |-> {Table("metrics")}]>>

\* The object a CREATE statement makes: a table without rows, a sequence at
\* its START value.
Create(db, obj) ==
    [catalog |-> db.catalog \cup {obj},
     seqs |-> IF obj.kind = "sequence"
              THEN [n \in (DOMAIN db.seqs) \cup {obj.name} |->
                      IF n = obj.name THEN 1 ELSE db.seqs[n]]
              ELSE db.seqs,
     rows |-> IF obj.kind = "table"
              THEN [db.rows EXCEPT ![obj.name] = <<>>]
              ELSE db.rows]

\* CREATE OR REPLACE ... in place of CREATE ... IF NOT EXISTS.
CreateOrReplace(db, obj) == Create(db, obj)

\* CREATE ... IF NOT EXISTS ...: nothing when the object exists, the new
\* object otherwise.
CreateIfNotExists(db, obj) ==
    IF obj \in db.catalog THEN db ELSE Create(db, obj)

\* s.db.ExecContext(ctx, migration): the statement fails when an object it
\* refers to does not exist.
ExecMigration(db, m) ==
    IF m.create \notin db.catalog /\ ~(m.needs \subseteq db.catalog)
    THEN [db |-> db, failed |-> TRUE]
    ELSE [db |-> CreateIfNotExists(db, m.create), failed |-> FALSE]

\* The loop of Migrate from statement i on; err is 0 for nil and i for
\* "migration i failed".
RECURSIVE RunMigrations(_, _)
RunMigrations(db, i) ==
    IF i > Len(migrations) THEN [db |-> db, err |-> 0]
    ELSE LET r == ExecMigration(db, migrations[i])
         IN IF r.failed THEN [db |-> r.db, err |-> i]
            ELSE RunMigrations(r.db, i + 1)

\* The database main and the tests work on: Migrate ran on the new store.
Migrated == RunMigrations(EmptyDb, 1).db

VARIABLES
    td,        \* the batch being transformed (spans in iteration order)
    pos,       \* number of spans the loop has processed
    traces,    \* working map traceID -> aggregate
    allSpans,  \* working map traceID -> converted spans
    result,    \* the returned list of aggregates
    tpc,       \* "loop" | "done"
    dbTraces,  \* committed table traces: trace_id -> row
    dbSpans,   \* committed table spans: span_id -> row
    rpc,       \* ingestion request: "idle" | "begin" | "upsert" | "spans"
    queue,     \* traces processTraces still has to insert (head: current)
    txTraces,  \* table traces as the open transaction sees it
    txSpans,   \* table spans as the open transaction sees it
    spanIdx,   \* index of the next span InsertTrace inserts
    resp,      \* answer to the last export request: "none" | "ok" | "error"
    nreq,      \* export requests started
    call,      \* last InsertTrace call: its argument, its outcome, whether a
               \* statement of it failed in the database, and the committed
               \* tables when it began
    reqBase,   \* the committed tables when the last export request began
    hist,      \* commit history: number of commits; per trace id the
               \* number of committed InsertTrace calls, the span list of the
               \* first one and the span rows it stored; per span id the
               \* row of its first committed insert
    gpc,       \* GetTraceByID: "idle" | "spans" | "done"
    gid,       \* its traceID argument
    gres,      \* its result, and the commit counts at its two queries
    dbLogs,    \* table logs: the rows in insertion order, id = position
    lq,        \* the LogFilters of the last GET /api/logs, <<>> before any
    lrows,     \* the page GetLogs returned for it
    ltotal,    \* the total CountLogs returned for it
    tq,        \* the last GetTraces call: its filters and its result; <<>>
               \* before any
    lt,        \* the last GetLogsByTraceID call: its trace id and its
               \* result; <<>> before any
    dbMetrics, \* table metrics: the rows in insertion order, id = position
    ag,        \* the last AggregateMetrics call: its request and results;
               \* <<>> before any
    catalog,   \* the catalog: the sequences, tables and indexes that exist
    seqs,      \* the next value of each sequence of the catalog
    mig,       \* Migrate calls: their number, the error of the last one and
               \* the database before and after it
    cmp,       \* the last POST /api/traces/compare: its body, the status
               \* answered, the trace ids read from the store and the traces
               \* answered; <<>> before any
    md,        \* the pmetric.Metrics being transformed (metrics in iteration
               \* order)
    mdPos,     \* number of metrics the loops have processed
    metrics,   \* the MetricRecords appended so far
    mpc,       \* TransformMetrics: "loop", "done" or "panic"
    http,      \* the last OTLP HTTP request: its endpoint and body, the
               \* status answered, whether the payload was transformed, the
               \* inserts made and the database before it; <<>> before any
    nhttp,     \* OTLP HTTP requests handled
    exp,       \* the export ingested into the empty store, <<>> before it
    readBack,  \* the GetTraceByID call made after the export: its trace id and
               \* its result; <<>> before it
    ipc,       \* InsertLogs: "idle", "tx" (transaction open) or "done"
    ibatch,    \* its logs argument
    iidx,      \* number of records it has inserted
    txLogs,    \* table logs as its open transaction sees it
    icall,     \* its call record: the argument, table logs when it began,
               \* whether it has returned and whether it returned an error
    ncalls,    \* InsertLogs calls started
    mg,        \* mergeAttributes: the heap of Go maps, the arguments, the result
    tg,        \* GET /api/traces/{id}: the last request and its answer
    rt,        \* an export request and its attempts (first send, retries)
    rcv        \* OTLPReceiver: its two server fields, its two goroutines, the Stop call

tvars == <<td, pos, traces, allSpans, result, tpc>>

svars == <<dbTraces, dbSpans, rpc, queue, txTraces, txSpans, spanIdx, resp,
           nreq, call, reqBase, hist>>

gvars == <<gpc, gid, gres>>

lvars == <<dbLogs, lq, lrows, ltotal, lt>>

qvars == <<tq>>

mvars == <<dbMetrics, ag>>

cvars == <<catalog, seqs, mig>>

kvars == <<cmp>>

xvars == <<md, mdPos, metrics, mpc>>

hvars == <<http, nhttp>>

evars == <<exp, readBack>>

ivars == <<ipc, ibatch, iidx, txLogs, icall, ncalls>>

avars == <<mg>>

bvars == <<tg>>

rvars == <<rt>>

ovars == <<rcv>>

vars == <<td, pos, traces, allSpans, result, tpc, dbTraces, dbSpans, rpc,
          queue, txTraces, txSpans, spanIdx, resp, nreq, call, reqBase, hist,
          gpc, gid, gres, dbLogs, lq, lrows, ltotal, tq, lt,
          dbMetrics, ag,
          catalog, seqs, mig,
          cmp,
          md, mdPos, metrics, mpc,
          http, nhttp,
          exp, readBack,
          ipc, ibatch, iidx, txLogs, icall, ncalls,
          mg,
          tg,
          rt,
          rcv>>

NoCall == [status |-> "none", fault |-> FALSE, failedAt |-> "", trace |-> <<>>,
           baseTraces |-> <<>>, baseSpans |-> <<>>]

NoResult == [found |-> FALSE, trace |-> <<>>, verRow |-> 0, verSpans |-> 0,
             ncommit |-> 0]

StoreIdle ==
    /\ hist = [ver |-> 0, ncommit |-> [id \in TraceIDs |-> 0],
               first |-> [id \in TraceIDs |-> <<>>],
               created |-> [id \in TraceIDs |-> {}],
               firstSpan |-> <<>>]
    /\ gpc = "idle"
    /\ gid = ""
    /\ gres = NoResult
    /\ dbTraces = <<>>
    /\ dbSpans = <<>>
    /\ rpc = "idle"
    /\ queue = <<>>
    /\ txTraces = <<>>
    /\ txSpans = <<>>
    /\ spanIdx = 0
    /\ resp = "none"
    /\ nreq = 0
    /\ call = NoCall
    /\ reqBase = [traces |-> <<>>, spans |-> <<>>]

LogsIdle ==
    /\ dbLogs = <<>>
    /\ lq = <<>>
    /\ lrows = <<>>
    /\ ltotal = 0
    /\ tq = <<>>
    /\ lt = <<>>

MetricsIdle ==
    /\ dbMetrics = <<>>
    /\ ag = <<>>

SchemaIdle ==
    /\ catalog = Migrated.catalog
    /\ seqs = Migrated.seqs
    /\ mig = [n |-> 1, err |-> 0, pre |-> EmptyDb, post |-> Migrated]

CompareIdle ==
    /\ cmp = <<>>

MetricsTransformIdle ==
    /\ md = <<>>
    /\ mdPos = 0
    /\ metrics = <<>>
    /\ mpc = "done"

ReceiverIdle ==
    /\ http = <<>>
    /\ nhttp = 0

EndToEndIdle ==
    /\ exp = <<>>
    /\ readBack = <<>>

InsertLogsIdle ==
    /\ ipc = "idle"
    /\ ibatch = <<>>
    /\ iidx = 0
    /\ txLogs = <<>>
    /\ icall = [batch |-> <<>>, pre |-> <<>>, returned |-> FALSE,
                err |-> FALSE]
    /\ ncalls = 0

MergeIdle ==
    /\ mg = <<>>

TraceHandlerIdle ==
    /\ tg = <<>>

RetryIdle ==
    /\ rt = <<>>

LifecycleIdle ==
    /\ rcv = <<>>

TransformIdle ==
    /\ td = <<>>
    /\ pos = 0
    /\ traces = <<>>
    /\ allSpans = <<>>
    /\ result = <<>>
    /\ tpc = "done"

\* ------------------------------------------------ SpecTransform
SpanNames == <<"s1", "s2", "s3", "s4", "s5">>

\* Batches: 1..MaxSpans spans, resource index non-decreasing.
InputSpans ==
    {OtlpSpan(r, tid, "s1", se[1], se[2], c) :
        r \in 1..2, tid \in TraceIDs, se \in SpanTimes, c \in StatusCodes}

Batches ==
    UNION {{b \in [1..n -> InputSpans] :
              \A i \in 1..(n - 1) : b[i].res <= b[i + 1].res} : n \in 1..MaxSpans}

\* The k-th span of a batch gets the k-th span id (ids are unique in a batch).
NumberBatch(b) == [k \in DOMAIN b |-> [b[k] EXCEPT !.spanID = SpanNames[k]]]

InitTransform ==
    /\ td \in {NumberBatch(b) : b \in Batches}
    /\ pos = 0
    /\ traces = <<>>
    /\ allSpans = <<>>
    /\ result = <<>>
    /\ tpc = "loop"
    /\ StoreIdle
    /\ LogsIdle
    /\ MetricsIdle
    /\ SchemaIdle
    /\ CompareIdle
    /\ MetricsTransformIdle
    /\ ReceiverIdle
    /\ EndToEndIdle
    /\ InsertLogsIdle
    /\ MergeIdle
    /\ TraceHandlerIdle
    /\ RetryIdle
    /\ LifecycleIdle

\* One iteration of the span loop.
ProcessSpan ==
    /\ tpc = "loop"
    /\ pos < Len(td)
    /\ LET acc == StepSpan([traces |-> traces, allSpans |-> allSpans], td[pos + 1])
       IN /\ traces' = acc.traces
          /\ allSpans' = acc.allSpans
    /\ pos' = pos + 1
    /\ UNCHANGED <<td, result, tpc>>
    /\ UNCHANGED svars
    /\ UNCHANGED gvars
    /\ UNCHANGED lvars
    /\ UNCHANGED qvars
    /\ UNCHANGED mvars
    /\ UNCHANGED cvars
    /\ UNCHANGED kvars
    /\ UNCHANGED xvars
    /\ UNCHANGED hvars
    /\ UNCHANGED evars
    /\ UNCHANGED ivars
    /\ UNCHANGED avars
    /\ UNCHANGED bvars
    /\ UNCHANGED rvars
    /\ UNCHANGED ovars

\* The loop is over: attach the span lists and return.
Attach ==
    /\ tpc = "loop"
    /\ pos = Len(td)
    /\ \E p \in Perms(DOMAIN traces) :
          result' = AttachSpans([traces |-> traces, allSpans |-> allSpans], p)
    /\ tpc' = "done"
    /\ UNCHANGED <<td, pos, traces, allSpans>>
    /\ UNCHANGED svars
    /\ UNCHANGED gvars
    /\ UNCHANGED lvars
    /\ UNCHANGED qvars
    /\ UNCHANGED mvars
    /\ UNCHANGED cvars
    /\ UNCHANGED kvars
    /\ UNCHANGED xvars
    /\ UNCHANGED hvars
    /\ UNCHANGED evars
    /\ UNCHANGED ivars
    /\ UNCHANGED avars
    /\ UNCHANGED bvars
    /\ UNCHANGED rvars
    /\ UNCHANGED ovars

NextTransform == ProcessSpan \/ Attach

SpecTransform == InitTransform /\ [][NextTransform]_vars

\* ------------------------------------------------ Spec: trace ingestion
\* Export requests: up to MaxBatch spans out of four: an Ok span of the
\* first resource and Error spans of the second, under span ids that
\* repeat within a trace and between traces.
ShapeSpans ==
    {OtlpSpan(1, "t1", "s1", 0, 1500000, 1),
     OtlpSpan(2, "t1", "s1", 1500000, 4500000, StatusCodeError),
     OtlpSpan(2, "t1", "s2", 1500000, 4500000, StatusCodeError),
     OtlpSpan(2, "t2", "s2", 1500000, 4500000, StatusCodeError)}

Requests ==
    UNION {{b \in [1..n -> ShapeSpans] :
              \A i \in 1..(n - 1) : b[i].res <= b[i + 1].res} : n \in 0..MaxBatch}

\* What TransformTraces can hand to the insert loop, over all requests.
RequestQueues == UNION {TransformTraces(b) : b \in Requests}

Init ==
    /\ TransformIdle
    /\ StoreIdle
    /\ LogsIdle
    /\ MetricsIdle
    /\ SchemaIdle
    /\ CompareIdle
    /\ MetricsTransformIdle
    /\ ReceiverIdle
    /\ EndToEndIdle
    /\ InsertLogsIdle
    /\ MergeIdle
    /\ TraceHandlerIdle
    /\ RetryIdle
    /\ LifecycleIdle

\* processTraces: transform the request, then insert trace by trace.
ProcessTracesUpTo(limit) ==
    /\ rpc = "idle"
    /\ nreq < limit
    /\ \E q \in RequestQueues :
          /\ queue' = q
          /\ IF q = <<>>
             THEN /\ resp' = "ok"
                  /\ rpc' = "idle"
             ELSE /\ resp' = "none"
                  /\ rpc' = "begin"
    /\ nreq' = nreq + 1
    /\ reqBase' = [traces |-> dbTraces, spans |-> dbSpans]
    /\ call' = NoCall
    /\ UNCHANGED <<dbTraces, dbSpans, txTraces, txSpans, spanIdx, hist>>
    /\ UNCHANGED tvars
    /\ UNCHANGED gvars
    /\ UNCHANGED lvars
    /\ UNCHANGED qvars
    /\ UNCHANGED mvars
    /\ UNCHANGED cvars
    /\ UNCHANGED kvars
    /\ UNCHANGED xvars
    /\ UNCHANGED hvars
    /\ UNCHANGED evars
    /\ UNCHANGED ivars
    /\ UNCHANGED avars
    /\ UNCHANGED bvars
    /\ UNCHANGED rvars
    /\ UNCHANGED ovars

ProcessTraces == ProcessTracesUpTo(MaxRequests)

ProcessTracesRead == ProcessTracesUpTo(MaxReadRequests)

\* Variant of Fail whose failing call leaves the statements it ran in the
\* committed tables.
FailKeepsTx ==
    /\ call' = [call EXCEPT !.status = "error", !.fault = TRUE,
                            !.failedAt = IF rpc = "upsert" THEN "upsert"
                                         ELSE IF spanIdx <= Len(call.trace.Spans)
                                              THEN "span" ELSE "commit"]
    /\ dbTraces' = IF rpc = "upsert" THEN dbTraces ELSE txTraces
    /\ dbSpans' = txSpans
    /\ txTraces' = <<>>
    /\ txSpans' = <<>>
    /\ spanIdx' = 0
    /\ queue' = <<>>
    /\ rpc' = "idle"
    /\ resp' = "error"

\* InsertTrace returns an error: the deferred Rollback drops the transaction
\* and processTraces returns the error to the exporter.
Fail ==
    /\ call' = [call EXCEPT !.status = "error", !.fault = TRUE,
                            !.failedAt = IF rpc = "upsert" THEN "upsert"
                                         ELSE IF spanIdx <= Len(call.trace.Spans)
                                              THEN "span" ELSE "commit"]
    /\ txTraces' = <<>>
    /\ txSpans' = <<>>
    /\ spanIdx' = 0
    /\ queue' = <<>>
    /\ rpc' = "idle"
    /\ resp' = "error"
    /\ UNCHANGED <<dbTraces, dbSpans>>

\* InsertTrace: BeginTx.
BeginTx ==
    /\ rpc = "begin"
    /\ \/ /\ call' = [status |-> "running", fault |-> FALSE, failedAt |-> "",
                      trace |-> Head(queue),
                      baseTraces |-> dbTraces, baseSpans |-> dbSpans]
          /\ txTraces' = dbTraces
          /\ txSpans' = dbSpans
          /\ spanIdx' = 1
          /\ rpc' = "upsert"
          /\ UNCHANGED <<dbTraces, dbSpans, queue, resp>>
       \/ /\ call' = [status |-> "error", fault |-> TRUE, failedAt |-> "begin",
                      trace |-> Head(queue),
                      baseTraces |-> dbTraces, baseSpans |-> dbSpans]
          /\ queue' = <<>>
          /\ rpc' = "idle"
          /\ resp' = "error"
          /\ UNCHANGED <<dbTraces, dbSpans, txTraces, txSpans, spanIdx>>
    /\ UNCHANGED <<nreq, reqBase, hist>>
    /\ UNCHANGED tvars
    /\ UNCHANGED gvars
    /\ UNCHANGED lvars
    /\ UNCHANGED qvars
    /\ UNCHANGED mvars
    /\ UNCHANGED cvars
    /\ UNCHANGED kvars
    /\ UNCHANGED xvars
    /\ UNCHANGED hvars
    /\ UNCHANGED evars
    /\ UNCHANGED ivars
    /\ UNCHANGED avars
    /\ UNCHANGED bvars
    /\ UNCHANGED rvars
    /\ UNCHANGED ovars

\* Variant of ExecUpsert that runs the upsert outside the transaction.
ExecUpsertOnDb ==
    /\ rpc = "upsert"
    /\ \/ /\ dbTraces' = UpsertTrace(dbTraces, call.trace)
          /\ txTraces' = UpsertTrace(txTraces, call.trace)
          /\ rpc' = "spans"
          /\ UNCHANGED <<dbSpans, queue, txSpans, spanIdx, resp, call>>
       \/ Fail
    /\ UNCHANGED <<nreq, reqBase, hist>>
    /\ UNCHANGED tvars
    /\ UNCHANGED gvars
    /\ UNCHANGED lvars
    /\ UNCHANGED qvars
    /\ UNCHANGED mvars
    /\ UNCHANGED cvars
    /\ UNCHANGED kvars
    /\ UNCHANGED xvars
    /\ UNCHANGED hvars
    /\ UNCHANGED evars
    /\ UNCHANGED ivars
    /\ UNCHANGED avars
    /\ UNCHANGED bvars
    /\ UNCHANGED rvars
    /\ UNCHANGED ovars

\* InsertTrace: the upsert of the trace row, inside the transaction.
ExecUpsert ==
    /\ rpc = "upsert"
    /\ \/ /\ txTraces' = UpsertTrace(txTraces, call.trace)
          /\ rpc' = "spans"
          /\ UNCHANGED <<dbTraces, dbSpans, queue, txSpans, spanIdx, resp, call>>
       \/ Fail
    /\ UNCHANGED <<nreq, reqBase, hist>>
    /\ UNCHANGED tvars
    /\ UNCHANGED gvars
    /\ UNCHANGED lvars
    /\ UNCHANGED qvars
    /\ UNCHANGED mvars
    /\ UNCHANGED cvars
    /\ UNCHANGED kvars
    /\ UNCHANGED xvars
    /\ UNCHANGED hvars
    /\ UNCHANGED evars
    /\ UNCHANGED ivars
    /\ UNCHANGED avars
    /\ UNCHANGED bvars
    /\ UNCHANGED rvars
    /\ UNCHANGED ovars

\* InsertTrace: one iteration of the span loop.
ExecInsertSpan ==
    /\ rpc = "spans"
    /\ spanIdx <= Len(call.trace.Spans)
    /\ \/ LET r == insertSpan(txSpans, call.trace.Spans[spanIdx])
          IN IF r.err
             THEN /\ call' = [call EXCEPT !.status = "error", !.failedAt = "span"]
                  /\ txTraces' = <<>>
                  /\ txSpans' = <<>>
                  /\ spanIdx' = 0
                  /\ queue' = <<>>
                  /\ rpc' = "idle"
                  /\ resp' = "error"
                  /\ UNCHANGED <<dbTraces, dbSpans>>
             ELSE /\ txSpans' = r.tbl
                  /\ spanIdx' = spanIdx + 1
                  /\ UNCHANGED <<dbTraces, dbSpans, queue, txTraces, rpc, resp, call>>
       \/ Fail
    /\ UNCHANGED <<nreq, reqBase, hist>>
    /\ UNCHANGED tvars
    /\ UNCHANGED gvars
    /\ UNCHANGED lvars
    /\ UNCHANGED qvars
    /\ UNCHANGED mvars
    /\ UNCHANGED cvars
    /\ UNCHANGED kvars
    /\ UNCHANGED xvars
    /\ UNCHANGED hvars
    /\ UNCHANGED evars
    /\ UNCHANGED ivars
    /\ UNCHANGED avars
    /\ UNCHANGED bvars
    /\ UNCHANGED rvars
    /\ UNCHANGED ovars

\* InsertTrace: Commit, then processTraces goes on with the next trace.
Commit ==
    /\ rpc = "spans"
    /\ spanIdx > Len(call.trace.Spans)
    /\ \/ /\ dbTraces' = txTraces
          /\ dbSpans' = txSpans
          /\ call' = [call EXCEPT !.status = "ok"]
          /\ txTraces' = <<>>
          /\ txSpans' = <<>>
          /\ spanIdx' = 0
          /\ queue' = Tail(queue)
          /\ IF Tail(queue) = <<>>
             THEN /\ rpc' = "idle"
                  /\ resp' = "ok"
             ELSE /\ rpc' = "begin"
                  /\ resp' = resp
          /\ LET id == call.trace.TraceID
             IN hist' = [hist EXCEPT
                   !.ver = @ + 1,
                   !.ncommit[id] = @ + 1,
                   !.first[id] = IF hist.ncommit[id] = 0
                                 THEN call.trace.Spans ELSE @,
                   !.created[id] = IF hist.ncommit[id] = 0
                                   THEN SpansWhere(txSpans, id) ELSE @,
                   !.firstSpan = @ @@ FirstInserts(call.trace.Spans)]
       \/ /\ Fail
          /\ UNCHANGED hist
    /\ UNCHANGED <<nreq, reqBase>>
    /\ UNCHANGED tvars
    /\ UNCHANGED gvars
    /\ UNCHANGED lvars
    /\ UNCHANGED qvars
    /\ UNCHANGED mvars
    /\ UNCHANGED cvars
    /\ UNCHANGED kvars
    /\ UNCHANGED xvars
    /\ UNCHANGED hvars
    /\ UNCHANGED evars
    /\ UNCHANGED ivars
    /\ UNCHANGED avars
    /\ UNCHANGED bvars
    /\ UNCHANGED rvars
    /\ UNCHANGED ovars

\* GetTraceByID: the query of the trace row.
GetTraceByID ==
    /\ gpc = "idle"
    /\ gid = ""
    /\ \E id \in TraceIDs :
          /\ gid' = id
          /\ IF id \in DOMAIN dbTraces
             THEN /\ gres' = [found |-> TRUE, trace |-> ScanTrace(dbTraces[id]),
                              verRow |-> hist.ver, verSpans |-> 0, ncommit |-> 0]
                  /\ gpc' = "spans"
             ELSE /\ gres' = [found |-> FALSE, trace |-> <<>>,
                              verRow |-> hist.ver, verSpans |-> hist.ver,
                              ncommit |-> hist.ncommit[id]]
                  /\ gpc' = "done"
    /\ UNCHANGED svars
    /\ UNCHANGED tvars
    /\ UNCHANGED lvars
    /\ UNCHANGED qvars
    /\ UNCHANGED mvars
    /\ UNCHANGED cvars
    /\ UNCHANGED kvars
    /\ UNCHANGED xvars
    /\ UNCHANGED hvars
    /\ UNCHANGED evars
    /\ UNCHANGED ivars
    /\ UNCHANGED avars
    /\ UNCHANGED bvars
    /\ UNCHANGED rvars
    /\ UNCHANGED ovars

\* GetTraceByID: the query of the spans, a second statement.
GetSpans ==
    /\ gpc = "spans"
    /\ \E spans \in getSpansByTraceID(dbSpans, gid) :
          gres' = [gres EXCEPT !.trace.Spans = spans, !.verSpans = hist.ver,
                               !.ncommit = hist.ncommit[gid]]
    /\ gpc' = "done"
    /\ UNCHANGED gid
    /\ UNCHANGED svars
    /\ UNCHANGED tvars
    /\ UNCHANGED lvars
    /\ UNCHANGED qvars
    /\ UNCHANGED mvars
    /\ UNCHANGED cvars
    /\ UNCHANGED kvars
    /\ UNCHANGED xvars
    /\ UNCHANGED hvars
    /\ UNCHANGED evars
    /\ UNCHANGED ivars
    /\ UNCHANGED avars
    /\ UNCHANGED bvars
    /\ UNCHANGED rvars
    /\ UNCHANGED ovars

Next == ProcessTraces \/ BeginTx \/ ExecUpsert \/ ExecInsertSpan \/ Commit

Spec == Init /\ [][Next]_vars

\* ------------------------------------------------ SpecRead
NextRead ==
    \/ ProcessTracesRead \/ BeginTx \/ ExecUpsert \/ ExecInsertSpan \/ Commit
    \/ GetTraceByID \/ GetSpans

SpecRead == Init /\ [][NextRead]_vars

\* ------------------------------------------------ SpecQuery
\* The filters a GET /api/traces request can carry.
TraceFilterValues ==
    [ServiceName : {"", "svc1"}, MinDuration : {-1, 0, 3},
     MaxDuration : {-1, 0, 3}, HasErrors : BOOLEAN,
     Search : {<<>>, <<"-", "b">>, <<"_", "b">>}, StartTime : {0, 1500000},
     EndTime : {0, 1}, Limit : {1, 100}, Offset : {0, 1}]

\* InsertTrace, from BeginTx to Commit with no statement failing.
InsertTraceCommitted ==
    /\ nreq < MaxRequests
    /\ \E q \in RequestQueues :
          /\ q # <<>>
          /\ dbTraces' = UpsertTrace(dbTraces, q[1])
          /\ dbSpans' = InsertSpans(dbSpans, q[1].Spans)
    /\ nreq' = nreq + 1
    /\ tq' = <<>>
    /\ UNCHANGED <<rpc, queue, txTraces, txSpans, spanIdx, resp, call, reqBase,
                   hist>>
    /\ UNCHANGED tvars
    /\ UNCHANGED gvars
    /\ UNCHANGED lvars
    /\ UNCHANGED mvars
    /\ UNCHANGED cvars
    /\ cmp' = <<>>
    /\ UNCHANGED xvars
    /\ UNCHANGED hvars
    /\ UNCHANGED evars
    /\ UNCHANGED ivars
    /\ UNCHANGED avars
    /\ tg' = <<>>
    /\ UNCHANGED rvars
    /\ UNCHANGED ovars

\* TracesHandler.GetTraces: one GetTraces query on the committed table.
HandleGetTraces ==
    /\ tq = <<>>
    /\ \E f \in TraceFilterValues :
          \E rows \in GetTraces(dbTraces, f) :
              tq' = [filters |-> f, rows |-> rows]
    /\ UNCHANGED svars
    /\ UNCHANGED tvars
    /\ UNCHANGED gvars
    /\ UNCHANGED lvars
    /\ UNCHANGED mvars
    /\ UNCHANGED cvars
    /\ UNCHANGED kvars
    /\ UNCHANGED xvars
    /\ UNCHANGED hvars
    /\ UNCHANGED evars
    /\ UNCHANGED ivars
    /\ UNCHANGED avars
    /\ UNCHANGED bvars
    /\ UNCHANGED rvars
    /\ UNCHANGED ovars

NextQuery == InsertTraceCommitted \/ HandleGetTraces

SpecQuery == Init /\ [][NextQuery]_vars

\* ------------------------------------------------ SpecTransformMetrics
MetricTypes == {"Gauge", "Sum", "Histogram", "ExponentialHistogram", "Summary"}

\* Data points: without attributes or with one.
DataPoints ==
    {[attrs |-> a, ts |-> 60, value |-> 10, count |-> 2, sum |-> 30, scale |-> 1,
      buckets |-> <<2>>, quantiles |-> <<30>>] :
        a \in {<<>>, "host" :> "h1"}}

\* An OTLP metric as TransformMetrics iterates it, with the index of its
\* resource.
OtlpMetrics ==
    {[res |-> res, name |-> "m1", type |-> type, dps |-> dps] :
        res \in {1}, type \in MetricTypes,
        dps \in UNION {[1..n -> DataPoints] : n \in 0..MaxDataPoints}}

MetricBatches == UNION {[1..n -> OtlpMetrics] : n \in 0..MaxMetricBatch}

InitTransformMetrics ==
    /\ md \in MetricBatches
    /\ mdPos = 0
    /\ metrics = <<>>
    /\ mpc = "loop"
    /\ TransformIdle
    /\ StoreIdle
    /\ LogsIdle
    /\ MetricsIdle
    /\ SchemaIdle
    /\ CompareIdle
    /\ ReceiverIdle
    /\ EndToEndIdle
    /\ InsertLogsIdle
    /\ MergeIdle
    /\ TraceHandlerIdle
    /\ RetryIdle
    /\ LifecycleIdle

\* One iteration of the metric loop: the switch on the metric type and the
\* append of what the transform function returns.  A panic ends the call.
ProcessMetric ==
    /\ mpc = "loop"
    /\ mdPos < Len(md)
    /\ LET r == TransformMetric(md[mdPos + 1])
       IN IF r.panic
          THEN /\ mpc' = "panic"
               /\ UNCHANGED <<mdPos, metrics>>
          ELSE /\ metrics' = metrics \o r.records
               /\ mdPos' = mdPos + 1
               /\ mpc' = mpc
    /\ UNCHANGED md
    /\ UNCHANGED tvars
    /\ UNCHANGED svars
    /\ UNCHANGED gvars
    /\ UNCHANGED lvars
    /\ UNCHANGED qvars
    /\ UNCHANGED mvars
    /\ UNCHANGED cvars
    /\ UNCHANGED kvars
    /\ UNCHANGED hvars
    /\ UNCHANGED evars
    /\ UNCHANGED ivars
    /\ UNCHANGED avars
    /\ UNCHANGED bvars
    /\ UNCHANGED rvars
    /\ UNCHANGED ovars

\* return metrics, nil
ReturnMetrics ==
    /\ mpc = "loop"
    /\ mdPos = Len(md)
    /\ mpc' = "done"
    /\ UNCHANGED <<md, mdPos, metrics>>
    /\ UNCHANGED tvars
    /\ UNCHANGED svars
    /\ UNCHANGED gvars
    /\ UNCHANGED lvars
    /\ UNCHANGED qvars
    /\ UNCHANGED mvars
    /\ UNCHANGED cvars
    /\ UNCHANGED kvars
    /\ UNCHANGED hvars
    /\ UNCHANGED evars
    /\ UNCHANGED ivars
    /\ UNCHANGED avars
    /\ UNCHANGED bvars
    /\ UNCHANGED rvars
    /\ UNCHANGED ovars

NextTransformMetrics == ProcessMetric \/ ReturnMetrics

SpecTransformMetrics == InitTransformMetrics /\ [][NextTransformMetrics]_vars

\* ------------------------------------------------ SpecCompare
\* The bodies a POST /api/traces/compare can carry: JSON that does not
\* decode, or a trace_ids list of 0..MaxCompareIDs ids.
CompareIDs == {"t1", "t3"}

CompareBodies ==
    {[json |-> FALSE, trace_ids |-> <<>>]} \cup
    {[json |-> TRUE, trace_ids |-> ids] :
        ids \in UNION {[1..n -> CompareIDs] : n \in 0..MaxCompareIDs}}

\* binding:"required,min=2,max=4" on CompareTracesRequest.TraceIDs.
BindingOK(ids) == Len(ids) # 0 /\ Len(ids) >= 2 /\ Len(ids) <= 4

\* c.ShouldBindJSON(&req): decode, then validate the binding tags.
ShouldBindJSON(body) == body.json /\ BindingOK(body.trace_ids)

\* The fetch loop of CompareTraces from index i on: GetTraceByID for each id
\* in order, stopping at the first id that is not found.  The set of the
\* possible outcomes (the span order of equal start times is open).
RECURSIVE FetchTraces(_, _, _, _)
FetchTraces(ids, i, reads, got) ==
    IF i > Len(ids)
    THEN {[status |-> 200, reads |-> reads, traces |-> got]}
    ELSE IF ids[i] \notin DOMAIN dbTraces
         THEN {[status |-> 404, reads |-> Append(reads, ids[i]),
                traces |-> <<>>]}
         ELSE UNION {FetchTraces(ids, i + 1, Append(reads, ids[i]),
                                 Append(got, [ScanTrace(dbTraces[ids[i]])
                                                EXCEPT !.Spans = spans])) :
                        spans \in getSpansByTraceID(dbSpans, ids[i])}

\* CompareTraces with neither the binding nor the length check.
CompareTracesUnchecked(body) == FetchTraces(body.trace_ids, 1, <<>>, <<>>)

\* CompareTraces: the responses it can give to a body.
CompareTraces(body) ==
    IF ~ShouldBindJSON(body)
    THEN {[status |-> 400, reads |-> <<>>, traces |-> <<>>]}
    ELSE IF Len(body.trace_ids) < 2 \/ Len(body.trace_ids) > 4
         THEN {[status |-> 400, reads |-> <<>>, traces |-> <<>>]}
         ELSE FetchTraces(body.trace_ids, 1, <<>>, <<>>)

\* TracesHandler.CompareTraces.  One response is kept until the next insert.
HandleCompareTraces ==
    /\ cmp = <<>>
    /\ \E body \in CompareBodies :
          \E r \in CompareTraces(body) :
              cmp' = [body |-> body, status |-> r.status, reads |-> r.reads,
                      traces |-> r.traces]
    /\ UNCHANGED svars
    /\ UNCHANGED tvars
    /\ UNCHANGED gvars
    /\ UNCHANGED lvars
    /\ UNCHANGED qvars
    /\ UNCHANGED mvars
    /\ UNCHANGED cvars
    /\ UNCHANGED xvars
    /\ UNCHANGED hvars
    /\ UNCHANGED evars
    /\ UNCHANGED ivars
    /\ UNCHANGED avars
    /\ UNCHANGED bvars
    /\ UNCHANGED rvars
    /\ UNCHANGED ovars

NextCompare == InsertTraceCommitted \/ HandleCompareTraces

SpecCompare == Init /\ [][NextCompare]_vars

\* ------------------------------------------------ SpecMigrate
\* The state after NewStore: nothing migrated yet.
InitMigrate ==
    /\ TransformIdle
    /\ StoreIdle
    /\ LogsIdle
    /\ MetricsIdle
    /\ catalog = EmptyDb.catalog
    /\ seqs = EmptyDb.seqs
    /\ mig = [n |-> 0, err |-> 0, pre |-> EmptyDb, post |-> EmptyDb]
    /\ CompareIdle
    /\ MetricsTransformIdle
    /\ ReceiverIdle
    /\ EndToEndIdle
    /\ InsertLogsIdle
    /\ MergeIdle
    /\ TraceHandlerIdle
    /\ RetryIdle
    /\ LifecycleIdle

\* The database as Migrate finds it.
CurrentDb ==
    [catalog |-> catalog, seqs |-> seqs,
     rows |-> [t \in TableNames |->
                 CASE t = "traces" -> dbTraces
                   [] t = "spans" -> dbSpans
                   [] t = "logs" -> dbLogs
                   [] OTHER -> dbMetrics]]

\* Store.Migrate.
Migrate ==
    /\ mig.n < MaxMigrations
    /\ LET r == RunMigrations(CurrentDb, 1)
       IN /\ catalog' = r.db.catalog
          /\ seqs' = r.db.seqs
          /\ dbTraces' = r.db.rows["traces"]
          /\ dbSpans' = r.db.rows["spans"]
          /\ dbLogs' = r.db.rows["logs"]
          /\ dbMetrics' = r.db.rows["metrics"]
          /\ mig' = [n |-> mig.n + 1, err |-> r.err, pre |-> CurrentDb,
                     post |-> r.db]
    /\ UNCHANGED <<rpc, queue, txTraces, txSpans, spanIdx, resp, nreq, call,
                   reqBase, hist>>
    /\ UNCHANGED <<lq, lrows, ltotal, lt, ag>>
    /\ UNCHANGED tvars
    /\ UNCHANGED gvars
    /\ UNCHANGED qvars
    /\ UNCHANGED kvars
    /\ UNCHANGED xvars
    /\ UNCHANGED hvars
    /\ UNCHANGED evars
    /\ UNCHANGED ivars
    /\ UNCHANGED avars
    /\ UNCHANGED bvars
    /\ UNCHANGED rvars
    /\ UNCHANGED ovars

\* ------------------------------------------------ SpecMetrics
\* Metric datapoints: timestamps in epoch seconds.
MetricPoints ==
    [Timestamp : {0, 60, 300}, MetricName : {"m1", "m2"},
     ServiceName : {"svc1", "svc2"}, Value : {10, 30}]

\* The requests a POST /api/metrics/aggregate can carry.
AggregationRequests ==
    {[MetricName |-> "m1", ServiceName |-> svc, StartTime |-> range[1],
      EndTime |-> range[2], Aggregation |-> agg, BucketSize |-> size] :
        svc \in {"", "svc1"}, range \in {<<0, 300>>, <<60, 300>>, <<0, 60>>},
        agg \in {"avg", "sum", "min", "max", "count", "p99"},
        size \in {"1 minute", "5 minutes", "2 weeks"}}

\* InsertMetric: INSERT INTO metrics ... RETURNING id.  The response of an
\* earlier aggregation is dropped.
InsertMetric ==
    /\ Len(dbMetrics) < MaxMetrics
    /\ Table("metrics") \in catalog
    /\ \E m \in MetricPoints :
          dbMetrics' = Append(dbMetrics,
                              [id |-> seqs["metrics_id_seq"],
                               timestamp |-> m.Timestamp,
                               metric_name |-> m.MetricName,
                               service_name |-> m.ServiceName,
                               value |-> m.Value])
    /\ ag' = <<>>
    /\ UNCHANGED tvars
    /\ UNCHANGED svars
    /\ UNCHANGED gvars
    /\ UNCHANGED lvars
    /\ UNCHANGED qvars
    /\ seqs' = [seqs EXCEPT !["metrics_id_seq"] = @ + 1]
    /\ UNCHANGED <<catalog, mig>>
    /\ UNCHANGED kvars
    /\ UNCHANGED xvars
    /\ UNCHANGED hvars
    /\ UNCHANGED evars
    /\ UNCHANGED ivars
    /\ UNCHANGED avars
    /\ UNCHANGED bvars
    /\ UNCHANGED rvars
    /\ UNCHANGED ovars

\* MetricsHandler.AggregateMetrics.  One response is kept until the next
\* insert.
HandleAggregateMetrics ==
    /\ ag = <<>>
    /\ \E req \in AggregationRequests :
          ag' = [req |-> req, results |-> AggregateMetrics(dbMetrics, req)]
    /\ UNCHANGED dbMetrics
    /\ UNCHANGED tvars
    /\ UNCHANGED svars
    /\ UNCHANGED gvars
    /\ UNCHANGED lvars
    /\ UNCHANGED qvars
    /\ UNCHANGED cvars
    /\ UNCHANGED kvars
    /\ UNCHANGED xvars
    /\ UNCHANGED hvars
    /\ UNCHANGED evars
    /\ UNCHANGED ivars
    /\ UNCHANGED avars
    /\ UNCHANGED bvars
    /\ UNCHANGED rvars
    /\ UNCHANGED ovars

NextMetrics == InsertMetric \/ HandleAggregateMetrics

SpecMetrics == Init /\ [][NextMetrics]_vars

\* ------------------------------------------------ SpecLogs
\* Log records: the body and the service follow the severity.
LogRecords ==
    {[Timestamp |-> ts, TraceID |-> tid, SeverityNumber |-> sev,
      Body |-> IF sev >= 17 THEN <<"e", "r", "r">> ELSE <<"o", "k">>,
      ServiceName |-> IF sev >= 17 THEN "svc2" ELSE "svc1"] :
        ts \in {1, 2}, tid \in {"", "t1", "t2"}, sev \in {9, 17}}

\* The filters a GET /api/logs request can carry.
LogFilterValues ==
    [StartTime : {0, 2}, EndTime : {0, 1}, ServiceName : {"", "svc1"},
     TraceID : {"", "t1"}, MinSeverity : {0, 17},
     SearchText : {<<>>, <<"r", "r">>}, Limit : {1, 100}, Offset : {0, 1}]

\* InsertLog: INSERT INTO logs ... RETURNING id.  The response of an earlier
\* GET /api/logs is dropped.
InsertLog ==
    /\ Len(dbLogs) < MaxLogs
    /\ Table("logs") \in catalog
    /\ \E log \in LogRecords :
          dbLogs' = Append(dbLogs,
                           [id |-> seqs["logs_id_seq"], timestamp |-> log.Timestamp,
                            trace_id |-> log.TraceID,
                            severity_number |-> log.SeverityNumber,
                            body |-> log.Body, service_name |-> log.ServiceName])
    /\ lq' = <<>>
    /\ lrows' = <<>>
    /\ ltotal' = 0
    /\ UNCHANGED tvars
    /\ UNCHANGED svars
    /\ UNCHANGED gvars
    /\ lt' = <<>>
    /\ UNCHANGED qvars
    /\ UNCHANGED mvars
    /\ seqs' = [seqs EXCEPT !["logs_id_seq"] = @ + 1]
    /\ UNCHANGED <<catalog, mig>>
    /\ UNCHANGED kvars
    /\ UNCHANGED xvars
    /\ UNCHANGED hvars
    /\ UNCHANGED evars
    /\ UNCHANGED ivars
    /\ UNCHANGED avars
    /\ UNCHANGED bvars
    /\ UNCHANGED rvars
    /\ UNCHANGED ovars

\* LogsHandler.GetLogs: the page from GetLogs, the total from CountLogs.
\* One response is kept until the next insert.
HandleGetLogs ==
    /\ lq = <<>>
    /\ lt = <<>>
    /\ \E f \in LogFilterValues :
          /\ lq' = f
          /\ lrows' \in GetLogs(dbLogs, f)
          /\ ltotal' = CountLogs(dbLogs, f)
    /\ UNCHANGED <<dbLogs, lt>>
    /\ UNCHANGED tvars
    /\ UNCHANGED svars
    /\ UNCHANGED gvars
    /\ UNCHANGED qvars
    /\ UNCHANGED mvars
    /\ UNCHANGED cvars
    /\ UNCHANGED kvars
    /\ UNCHANGED xvars
    /\ UNCHANGED hvars
    /\ UNCHANGED evars
    /\ UNCHANGED ivars
    /\ UNCHANGED avars
    /\ UNCHANGED bvars
    /\ UNCHANGED rvars
    /\ UNCHANGED ovars

\* The trace ids a GET /api/logs/trace/:traceId request can carry.
LogTraceIDs == {"", "t1", "t2", "t3"}

\* LogsHandler.GetLogsByTraceID.  One response is kept until the next insert.
HandleGetLogsByTraceID ==
    /\ lt = <<>>
    /\ lq = <<>>
    /\ \E id \in LogTraceIDs :
          \E rows \in GetLogsByTraceID(dbLogs, id) :
              lt' = [traceID |-> id, rows |-> rows]
    /\ UNCHANGED <<dbLogs, lq, lrows, ltotal>>
    /\ UNCHANGED qvars
    /\ UNCHANGED tvars
    /\ UNCHANGED svars
    /\ UNCHANGED gvars
    /\ UNCHANGED mvars
    /\ UNCHANGED cvars
    /\ UNCHANGED kvars
    /\ UNCHANGED xvars
    /\ UNCHANGED hvars
    /\ UNCHANGED evars
    /\ UNCHANGED ivars
    /\ UNCHANGED avars
    /\ UNCHANGED bvars
    /\ UNCHANGED rvars
    /\ UNCHANGED ovars

NextLogs == InsertLog \/ HandleGetLogs \/ HandleGetLogsByTraceID

SpecLogs == Init /\ [][NextLogs]_vars

\* Migrate, and the insert that fills a table and draws from a sequence.
NextMigrate == Migrate \/ InsertLog

SpecMigrate == InitMigrate /\ [][NextMigrate]_vars

\* ------------------------------------------------ SpecReceiver
\* The OTLP log records an export can carry, with the index of their
\* resource; traceID "" is the empty trace id.
OtlpLogs ==
    {[res |-> 1, timestamp |-> 1, traceID |-> "", severity |-> 9,
      body |-> <<"o", "k">>],
     [res |-> 2, timestamp |-> 2, traceID |-> "t1", severity |-> 17,
      body |-> <<"e", "r", "r">>]}

\* TransformLogs, one record: the trace id pointer stays nil (written "")
\* for an empty trace id.
TransformLog(lr) ==
    [Timestamp |-> lr.timestamp,
     TraceID |-> IF lr.traceID # "" THEN lr.traceID ELSE "",
     SeverityNumber |-> lr.severity, Body |-> lr.body,
     ServiceName |-> extractServiceName(attributesToMap(ResourceAttrs[lr.res].kv))]

TransformLogs(ld) == [i \in DOMAIN ld |-> TransformLog(ld[i])]

\* TransformMetrics as a whole, from metric i on.
RECURSIVE TransformMetricsFrom(_, _, _)
TransformMetricsFrom(batch, i, acc) ==
    IF i > Len(batch) THEN [panic |-> FALSE, records |-> acc]
    ELSE LET r == TransformMetric(batch[i])
         IN IF r.panic THEN [panic |-> TRUE, records |-> <<>>]
            ELSE TransformMetricsFrom(batch, i + 1, acc \o r.records)

TransformMetrics(batch) == TransformMetricsFrom(batch, 1, <<>>)

\* The database after the first k InsertTrace calls of processTraces
\* committed.
RECURSIVE StoreTraces(_, _, _)
StoreTraces(db, q, k) ==
    IF k = 0 THEN db
    ELSE LET d == StoreTraces(db, q, k - 1)
         IN [d EXCEPT !.rows["traces"] = UpsertTrace(@, q[k]),
                      !.rows["spans"] = InsertSpans(@, q[k].Spans)]

\* The database after the first k InsertLog calls of processLogs.
RECURSIVE StoreLogs(_, _, _)
StoreLogs(db, logs, k) ==
    IF k = 0 THEN db
    ELSE LET d == StoreLogs(db, logs, k - 1)
         IN [d EXCEPT !.rows["logs"] =
                         Append(@, [id |-> d.seqs["logs_id_seq"],
                                    timestamp |-> logs[k].Timestamp,
                                    trace_id |-> logs[k].TraceID,
                                    severity_number |-> logs[k].SeverityNumber,
                                    body |-> logs[k].Body,
                                    service_name |-> logs[k].ServiceName]),
                      !.seqs["logs_id_seq"] = @ + 1]

\* The database after the first k InsertMetric calls of processMetrics.
RECURSIVE StoreMetrics(_, _, _)
StoreMetrics(db, recs, k) ==
    IF k = 0 THEN db
    ELSE LET d == StoreMetrics(db, recs, k - 1)
         IN [d EXCEPT !.rows["metrics"] =
                         Append(@, [id |-> d.seqs["metrics_id_seq"],
                                    timestamp |-> recs[k].Timestamp,
                                    metric_name |-> recs[k].MetricName,
                                    service_name |-> recs[k].ServiceName,
                                    value |-> recs[k].Value]),
                      !.seqs["metrics_id_seq"] = @ + 1]

\* processLogs / processMetrics running their inserts in one transaction
\* that a failed insert rolls back.
ProcessAllOrNothing(endpoint, payload, db) ==
    CASE endpoint = "/v1/logs" ->
            LET logs == TransformLogs(payload)
            IN {[status |-> IF k = Len(logs) THEN 200 ELSE 500,
                 transformed |-> TRUE, inserted |-> k,
                 db |-> IF k = Len(logs) THEN StoreLogs(db, logs, k) ELSE db] :
                    k \in 0..Len(logs)}
      [] OTHER ->
            LET r == TransformMetrics(payload)
            IN IF r.panic
               THEN {[status |-> 0, transformed |-> TRUE, inserted |-> 0,
                      db |-> db]}
               ELSE {[status |-> IF k = Len(r.records) THEN 200 ELSE 500,
                      transformed |-> TRUE, inserted |-> k,
                      db |-> IF k = Len(r.records)
                             THEN StoreMetrics(db, r.records, k) ELSE db] :
                        k \in 0..Len(r.records)}

\* processTraces / processLogs / processMetrics on a decoded payload: the
\* outcomes it can have.  The transform runs; the inserts run in order and
\* the first one that fails ends the request with an error (k inserts were
\* made before it).  A panic of the transform ends the request with no
\* response (status 0).
Process(endpoint, payload, db) ==
    CASE endpoint = "/v1/traces" ->
            UNION {{[status |-> IF k = Len(q) THEN 200 ELSE 500,
                     transformed |-> TRUE, inserted |-> k,
                     db |-> StoreTraces(db, q, k)] : k \in 0..Len(q)} :
                      q \in TransformTraces(payload)}
      [] endpoint = "/v1/logs" ->
            LET logs == TransformLogs(payload)
            IN {[status |-> IF k = Len(logs) THEN 200 ELSE 500,
                 transformed |-> TRUE, inserted |-> k,
                 db |-> StoreLogs(db, logs, k)] : k \in 0..Len(logs)}
      [] OTHER ->
            LET r == TransformMetrics(payload)
            IN IF r.panic
               THEN {[status |-> 0, transformed |-> TRUE, inserted |-> 0,
                      db |-> db]}
               ELSE {[status |-> IF k = Len(r.records) THEN 200 ELSE 500,
                      transformed |-> TRUE, inserted |-> k,
                      db |-> StoreMetrics(db, r.records, k)] :
                        k \in 0..Len(r.records)}

\* The answer to a body that does not decode.
BadRequest(db) ==
    {[status |-> 400, transformed |-> FALSE, inserted |-> 0, db |-> db]}

\* handleHTTPTraces / handleHTTPLogs / handleHTTPMetrics without the return
\* after a failed UnmarshalProto.
handleHTTPIgnoringDecodeError(endpoint, body, db) ==
    IF ~body.read THEN BadRequest(db)
    ELSE Process(endpoint, body.payload, db)

\* handleHTTPTraces / handleHTTPLogs / handleHTTPMetrics: the outcomes of
\* one request.
handleHTTP(endpoint, body, db) ==
    IF ~body.read THEN BadRequest(db)
    ELSE IF ~body.proto THEN BadRequest(db)
         ELSE Process(endpoint, body.payload, db)

Endpoints == {"/v1/traces", "/v1/logs", "/v1/metrics"}

\* What a request body decodes to (completely, or as far as UnmarshalProto
\* reached before it failed).
Payloads(endpoint) ==
    CASE endpoint = "/v1/traces" ->
            {<<>>} \cup {<<sp>> : sp \in ShapeSpans}
      [] endpoint = "/v1/logs" ->
            {<<>>} \cup {<<lr>> : lr \in OtlpLogs}
      [] OTHER ->
            {<<>>} \cup
            {<<[res |-> 1, name |-> "m1", type |-> type, dps |-> dps]>> :
                type \in MetricTypes,
                dps \in {<<>>} \cup {<<dp>> : dp \in DataPoints}}

\* Request bodies: read says whether io.ReadAll succeeds, proto whether
\* UnmarshalProto does.
HTTPBodies(endpoint) ==
    [read : BOOLEAN, proto : BOOLEAN, payload : Payloads(endpoint)]

\* One OTLP HTTP request, from io.ReadAll to the response.
HandleHTTP ==
    /\ nhttp < MaxHTTPRequests
    /\ \E endpoint \in Endpoints :
          \E body \in HTTPBodies(endpoint) :
              \E r \in handleHTTP(endpoint, body, CurrentDb) :
                  /\ http' = [endpoint |-> endpoint, body |-> body,
                              status |-> r.status,
                              transformed |-> r.transformed,
                              inserted |-> r.inserted, pre |-> CurrentDb]
                  /\ dbTraces' = r.db.rows["traces"]
                  /\ dbSpans' = r.db.rows["spans"]
                  /\ dbLogs' = r.db.rows["logs"]
                  /\ dbMetrics' = r.db.rows["metrics"]
                  /\ seqs' = r.db.seqs
    /\ nhttp' = nhttp + 1
    /\ UNCHANGED <<rpc, queue, txTraces, txSpans, spanIdx, resp, nreq, call,
                   reqBase, hist>>
    /\ UNCHANGED <<lq, lrows, ltotal, lt, ag, catalog, mig>>
    /\ UNCHANGED tvars
    /\ UNCHANGED gvars
    /\ UNCHANGED qvars
    /\ UNCHANGED kvars
    /\ UNCHANGED xvars
    /\ UNCHANGED evars
    /\ UNCHANGED ivars
    /\ UNCHANGED avars
    /\ UNCHANGED bvars
    /\ UNCHANGED rvars
    /\ UNCHANGED ovars

NextReceiver == HandleHTTP

SpecReceiver == Init /\ [][NextReceiver]_vars

\* ------------------------------------------------ SpecEndToEnd
\* A span of trace t1 with a parent span id ("" for none); status Unset (0)
\* or Ok (1).
OtlpSpanOf(res, sid, parent, start, end, code) ==
    [OtlpSpan(res, "t1", sid, start, end, code) EXCEPT !.parent = parent]

\* The exports with a root span A of 100 ms and a child span B of 60 ms
\* that lies inside A's window, in either span order.
RootChildExports ==
    UNION {{<<a, b>>, <<b, a>>} \cap
               {x \in [1..2 -> {a, b}] : x[1].res <= x[2].res} :
           a \in {OtlpSpanOf(ra, "A", "", 0, 100 * NsPerMs, ca) :
                     ra \in 1..2, ca \in {0, 1}},
           b \in {OtlpSpanOf(rb, "B", "A", sb * NsPerMs, (sb + 60) * NsPerMs, cb) :
                     rb \in 1..2, cb \in {0, 1}, sb \in {0, 20, 40}}}

\* processTraces on an empty store, every InsertTrace committing.
IngestExport ==
    /\ exp = <<>>
    /\ dbTraces = <<>>
    /\ dbSpans = <<>>
    /\ \E batch \in RootChildExports :
          \E q \in TransformTraces(batch) :
              LET db == StoreTraces(CurrentDb, q, Len(q))
              IN /\ exp' = batch
                 /\ dbTraces' = db.rows["traces"]
                 /\ dbSpans' = db.rows["spans"]
    /\ UNCHANGED readBack
    /\ UNCHANGED <<rpc, queue, txTraces, txSpans, spanIdx, resp, nreq, call,
                   reqBase, hist>>
    /\ UNCHANGED tvars
    /\ UNCHANGED gvars
    /\ UNCHANGED lvars
    /\ UNCHANGED qvars
    /\ UNCHANGED mvars
    /\ UNCHANGED cvars
    /\ UNCHANGED kvars
    /\ UNCHANGED xvars
    /\ UNCHANGED hvars
    /\ UNCHANGED ivars
    /\ UNCHANGED avars
    /\ UNCHANGED bvars
    /\ UNCHANGED rvars
    /\ UNCHANGED ovars

\* GetTraceByID after the export: the trace row, then its spans.
ReadTraceByID ==
    /\ exp # <<>>
    /\ readBack = <<>>
    /\ \E id \in TraceIDs :
          IF id \notin DOMAIN dbTraces
          THEN readBack' = [id |-> id, found |-> FALSE, trace |-> <<>>]
          ELSE \E spans \in getSpansByTraceID(dbSpans, id) :
                  readBack' = [id |-> id, found |-> TRUE,
                          trace |-> [ScanTrace(dbTraces[id])
                                       EXCEPT !.Spans = spans]]
    /\ UNCHANGED exp
    /\ UNCHANGED svars
    /\ UNCHANGED tvars
    /\ UNCHANGED gvars
    /\ UNCHANGED lvars
    /\ UNCHANGED qvars
    /\ UNCHANGED mvars
    /\ UNCHANGED cvars
    /\ UNCHANGED kvars
    /\ UNCHANGED xvars
    /\ UNCHANGED hvars
    /\ UNCHANGED ivars
    /\ UNCHANGED avars
    /\ UNCHANGED bvars
    /\ UNCHANGED rvars
    /\ UNCHANGED ovars

NextEndToEnd == IngestExport \/ ReadTraceByID

SpecEndToEnd == Init /\ [][NextEndToEnd]_vars

\* ------------------------------------------------ SpecInsertLogs
\* The records an InsertLogs batch is made of.
BatchRecords == {TransformLog(lr) : lr \in OtlpLogs}

LogBatches == UNION {[1..n -> BatchRecords] : n \in 0..MaxBatch}

\* The row INSERT INTO logs stores for a record, its id drawn from the
\* sequence.
LogRow(id, log) ==
    [id |-> id, timestamp |-> log.Timestamp, trace_id |-> log.TraceID,
     severity_number |-> log.SeverityNumber, body |-> log.Body,
     service_name |-> log.ServiceName]

\* Variant of RollbackLogs: the rows of the transaction stay.
RollbackLogsKeepsRows(committed, tx) == tx

\* defer tx.Rollback(): table logs after the rollback of an open transaction.
RollbackLogs(committed, tx) == committed

\* InsertLogs up to BeginTx: an empty batch returns nil at once; BeginTx
\* opens the transaction or fails.
InsertLogsBegin ==
    /\ ipc \in {"idle", "done"}
    /\ ncalls < MaxInsertLogsCalls
    /\ ncalls' = ncalls + 1
    /\ \E logs \in LogBatches :
          /\ ibatch' = logs
          /\ iidx' = 0
          /\ IF logs = <<>>
             THEN /\ ipc' = "done"
                  /\ txLogs' = <<>>
                  /\ icall' = [batch |-> logs, pre |-> dbLogs,
                               returned |-> TRUE, err |-> FALSE]
             ELSE \E ok \in BOOLEAN :
                     IF ok
                     THEN /\ ipc' = "tx"
                          /\ txLogs' = dbLogs
                          /\ icall' = [batch |-> logs, pre |-> dbLogs,
                                       returned |-> FALSE, err |-> FALSE]
                     ELSE /\ ipc' = "done"
                          /\ txLogs' = <<>>
                          /\ icall' = [batch |-> logs, pre |-> dbLogs,
                                       returned |-> TRUE, err |-> TRUE]
    /\ UNCHANGED <<dbLogs, seqs>>
    /\ UNCHANGED <<lq, lrows, ltotal, lt, catalog, mig>>
    /\ UNCHANGED tvars
    /\ UNCHANGED svars
    /\ UNCHANGED gvars
    /\ UNCHANGED qvars
    /\ UNCHANGED <<dbMetrics, ag>>
    /\ UNCHANGED kvars
    /\ UNCHANGED xvars
    /\ UNCHANGED hvars
    /\ UNCHANGED evars
    /\ UNCHANGED avars
    /\ UNCHANGED bvars
    /\ UNCHANGED rvars
    /\ UNCHANGED ovars

\* One tx.ExecContext of the loop: the INSERT of the next record succeeds
\* inside the transaction, or fails and InsertLogs returns the error, the
\* deferred Rollback undoing the transaction.  A sequence value drawn by an
\* insert that is rolled back may or may not be given back.
InsertLogsExec ==
    /\ ipc = "tx"
    /\ iidx < Len(ibatch)
    /\ \E ok \in BOOLEAN :
          IF ok
          THEN /\ txLogs' = Append(txLogs, LogRow(seqs["logs_id_seq"],
                                                  ibatch[iidx + 1]))
               /\ seqs' = [seqs EXCEPT !["logs_id_seq"] = @ + 1]
               /\ iidx' = iidx + 1
               /\ UNCHANGED <<ipc, dbLogs, icall>>
          ELSE /\ dbLogs' = RollbackLogs(dbLogs, txLogs)
               /\ txLogs' = <<>>
               /\ ipc' = "done"
               /\ icall' = [icall EXCEPT !.returned = TRUE, !.err = TRUE]
               /\ \E s \in {seqs["logs_id_seq"], seqs["logs_id_seq"] - iidx} :
                     seqs' = [seqs EXCEPT !["logs_id_seq"] = s]
               /\ UNCHANGED iidx
    /\ UNCHANGED <<ibatch, ncalls>>
    /\ UNCHANGED <<lq, lrows, ltotal, lt, catalog, mig>>
    /\ UNCHANGED tvars
    /\ UNCHANGED svars
    /\ UNCHANGED gvars
    /\ UNCHANGED qvars
    /\ UNCHANGED <<dbMetrics, ag>>
    /\ UNCHANGED kvars
    /\ UNCHANGED xvars
    /\ UNCHANGED hvars
    /\ UNCHANGED evars
    /\ UNCHANGED avars
    /\ UNCHANGED bvars
    /\ UNCHANGED rvars
    /\ UNCHANGED ovars

\* tx.Commit(): the rows of the transaction become table logs, or the commit
\* fails, InsertLogs returns the error and nothing of the transaction stays.
InsertLogsCommit ==
    /\ ipc = "tx"
    /\ iidx = Len(ibatch)
    /\ \E ok \in BOOLEAN :
          IF ok
          THEN /\ dbLogs' = txLogs
               /\ icall' = [icall EXCEPT !.returned = TRUE]
               /\ UNCHANGED seqs
          ELSE /\ dbLogs' = RollbackLogs(dbLogs, txLogs)
               /\ icall' = [icall EXCEPT !.returned = TRUE, !.err = TRUE]
               /\ \E s \in {seqs["logs_id_seq"], seqs["logs_id_seq"] - iidx} :
                     seqs' = [seqs EXCEPT !["logs_id_seq"] = s]
    /\ txLogs' = <<>>
    /\ ipc' = "done"
    /\ UNCHANGED <<ibatch, iidx, ncalls>>
    /\ UNCHANGED <<lq, lrows, ltotal, lt, catalog, mig>>
    /\ UNCHANGED tvars
    /\ UNCHANGED svars
    /\ UNCHANGED gvars
    /\ UNCHANGED qvars
    /\ UNCHANGED <<dbMetrics, ag>>
    /\ UNCHANGED kvars
    /\ UNCHANGED xvars
    /\ UNCHANGED hvars
    /\ UNCHANGED evars
    /\ UNCHANGED avars
    /\ UNCHANGED bvars
    /\ UNCHANGED rvars
    /\ UNCHANGED ovars

NextInsertLogs == InsertLogsBegin \/ InsertLogsExec \/ InsertLogsCommit

SpecInsertLogs == Init /\ [][NextInsertLogs]_vars

\* ------------------------------------------------ SpecLifecycle
\* The process from main's call of otlpReceiver.Start to its return.
\*   main                    where main is
\*   apc, apiShut, inflight  the query API server: its ListenAndServe
\*                           goroutine, whether Shutdown ran on it, the
\*                           requests it is serving
\*   apiRet                  what srv.Shutdown returned to main
\*   httpServer, grpcServer  whether the receiver's field has been assigned
\*   httpShut, grpcStopped   whether Shutdown / GracefulStop ran on the server
\*   hpc, gpc                where the goroutine of the OTLP listener is
\*   stop                    where the Stop call is
MainStart ==
    [main |-> "init", apc |-> "none", apiShut |-> FALSE, inflight |-> 0,
     apiRet |-> "none",
     httpServer |-> FALSE, grpcServer |-> FALSE,
     httpShut |-> FALSE, grpcStopped |-> FALSE,
     hpc |-> "none", gpc |-> "none", stop |-> "none"]

InitLifecycle ==
    /\ rcv = MainStart
    /\ TransformIdle
    /\ StoreIdle
    /\ LogsIdle
    /\ MetricsIdle
    /\ SchemaIdle
    /\ CompareIdle
    /\ MetricsTransformIdle
    /\ ReceiverIdle
    /\ EndToEndIdle
    /\ InsertLogsIdle
    /\ MergeIdle
    /\ TraceHandlerIdle
    /\ RetryIdle

\* The process runs: main has not returned and os.Exit was not called.
Running == rcv # <<>> /\ rcv.main \notin {"exit1", "returned"}

\* OTLPReceiver.Start: the two go statements; it returns nil at once.
Start ==
    /\ Running
    /\ rcv.main = "init"
    /\ rcv' = [rcv EXCEPT !.main = "started", !.hpc = "go", !.gpc = "go"]
    /\ UNCHANGED tvars
    /\ UNCHANGED svars
    /\ UNCHANGED gvars
    /\ UNCHANGED lvars
    /\ UNCHANGED qvars
    /\ UNCHANGED mvars
    /\ UNCHANGED cvars
    /\ UNCHANGED kvars
    /\ UNCHANGED xvars
    /\ UNCHANGED hvars
    /\ UNCHANGED evars
    /\ UNCHANGED ivars
    /\ UNCHANGED avars
    /\ UNCHANGED bvars
    /\ UNCHANGED rvars

\* main: go func() { srv.Start(ctx) }(), then main waits in its select.
APIStart ==
    /\ Running
    /\ rcv.main = "started"
    /\ rcv' = [rcv EXCEPT !.main = "wait", !.apc = "go"]
    /\ UNCHANGED tvars
    /\ UNCHANGED svars
    /\ UNCHANGED gvars
    /\ UNCHANGED lvars
    /\ UNCHANGED qvars
    /\ UNCHANGED mvars
    /\ UNCHANGED cvars
    /\ UNCHANGED kvars
    /\ UNCHANGED xvars
    /\ UNCHANGED hvars
    /\ UNCHANGED evars
    /\ UNCHANGED ivars
    /\ UNCHANGED avars
    /\ UNCHANGED bvars
    /\ UNCHANGED rvars

\* Server.Start: s.server.ListenAndServe().  On a server that was shut down
\* it returns ErrServerClosed; else it serves, or fails to bind the port.
APIListenAndServe ==
    /\ Running
    /\ rcv.apc = "go"
    /\ IF rcv.apiShut
       THEN rcv' = [rcv EXCEPT !.apc = "closed"]
       ELSE \E ok \in BOOLEAN :
               rcv' = [rcv EXCEPT !.apc = IF ok THEN "serving" ELSE "failed"]
    /\ UNCHANGED tvars
    /\ UNCHANGED svars
    /\ UNCHANGED gvars
    /\ UNCHANGED lvars
    /\ UNCHANGED qvars
    /\ UNCHANGED mvars
    /\ UNCHANGED cvars
    /\ UNCHANGED kvars
    /\ UNCHANGED xvars
    /\ UNCHANGED hvars
    /\ UNCHANGED evars
    /\ UNCHANGED ivars
    /\ UNCHANGED avars
    /\ UNCHANGED bvars
    /\ UNCHANGED rvars

\* The query API server takes a request.
APIAccept ==
    /\ Running
    /\ rcv.apc = "serving"
    /\ rcv.inflight < MaxInFlight
    /\ rcv' = [rcv EXCEPT !.inflight = @ + 1]
    /\ UNCHANGED tvars
    /\ UNCHANGED svars
    /\ UNCHANGED gvars
    /\ UNCHANGED lvars
    /\ UNCHANGED qvars
    /\ UNCHANGED mvars
    /\ UNCHANGED cvars
    /\ UNCHANGED kvars
    /\ UNCHANGED xvars
    /\ UNCHANGED hvars
    /\ UNCHANGED evars
    /\ UNCHANGED ivars
    /\ UNCHANGED avars
    /\ UNCHANGED bvars
    /\ UNCHANGED rvars

\* A request of the query API server is answered.
APIFinish ==
    /\ Running
    /\ rcv.inflight > 0
    /\ rcv' = [rcv EXCEPT !.inflight = @ - 1]
    /\ UNCHANGED tvars
    /\ UNCHANGED svars
    /\ UNCHANGED gvars
    /\ UNCHANGED lvars
    /\ UNCHANGED qvars
    /\ UNCHANGED mvars
    /\ UNCHANGED cvars
    /\ UNCHANGED kvars
    /\ UNCHANGED xvars
    /\ UNCHANGED hvars
    /\ UNCHANGED evars
    /\ UNCHANGED ivars
    /\ UNCHANGED avars
    /\ UNCHANGED bvars
    /\ UNCHANGED rvars

\* main's select takes errChan: Server.Start returned the error of
\* ListenAndServe; os.Exit(1).
ExitOnServerError ==
    /\ Running
    /\ rcv.main = "wait"
    /\ rcv.apc = "failed"
    /\ rcv' = [rcv EXCEPT !.main = "exit1"]
    /\ UNCHANGED tvars
    /\ UNCHANGED svars
    /\ UNCHANGED gvars
    /\ UNCHANGED lvars
    /\ UNCHANGED qvars
    /\ UNCHANGED mvars
    /\ UNCHANGED cvars
    /\ UNCHANGED kvars
    /\ UNCHANGED xvars
    /\ UNCHANGED hvars
    /\ UNCHANGED evars
    /\ UNCHANGED ivars
    /\ UNCHANGED avars
    /\ UNCHANGED bvars
    /\ UNCHANGED rvars

\* main's select takes sigChan and calls srv.Shutdown(ctx): the listener of
\* the query API server closes, the call waits for the requests in flight.
Signal ==
    /\ Running
    /\ rcv.main = "wait"
    /\ rcv' = [rcv EXCEPT !.main = "shutdown", !.apiShut = TRUE,
                          !.apc = IF @ = "serving" THEN "closed" ELSE @]
    /\ UNCHANGED tvars
    /\ UNCHANGED svars
    /\ UNCHANGED gvars
    /\ UNCHANGED lvars
    /\ UNCHANGED qvars
    /\ UNCHANGED mvars
    /\ UNCHANGED cvars
    /\ UNCHANGED kvars
    /\ UNCHANGED xvars
    /\ UNCHANGED hvars
    /\ UNCHANGED evars
    /\ UNCHANGED ivars
    /\ UNCHANGED avars
    /\ UNCHANGED bvars
    /\ UNCHANGED rvars

\* Where main goes when srv.Shutdown returned with an error that ends the
\* process.
AfterShutdownFatal(err) == IF err THEN "exit1" ELSE "stop"

\* Where main goes when srv.Shutdown returned: an error is logged, and in
\* both cases otlpReceiver.Stop(ctx) is called.
AfterShutdown(err) == "stop"

\* Server.Shutdown returns nil: no request is in flight any more.
ShutdownDrained ==
    /\ Running
    /\ rcv.main = "shutdown"
    /\ rcv.inflight = 0
    /\ rcv' = [rcv EXCEPT !.apiRet = "ok", !.main = AfterShutdown(FALSE)]
    /\ UNCHANGED tvars
    /\ UNCHANGED svars
    /\ UNCHANGED gvars
    /\ UNCHANGED lvars
    /\ UNCHANGED qvars
    /\ UNCHANGED mvars
    /\ UNCHANGED cvars
    /\ UNCHANGED kvars
    /\ UNCHANGED xvars
    /\ UNCHANGED hvars
    /\ UNCHANGED evars
    /\ UNCHANGED ivars
    /\ UNCHANGED avars
    /\ UNCHANGED bvars
    /\ UNCHANGED rvars

\* Server.Shutdown returns "server shutdown failed": the 10 seconds of
\* shutdownCtx passed with a request in flight.
ShutdownTimedOut ==
    /\ Running
    /\ rcv.main = "shutdown"
    /\ rcv.inflight > 0
    /\ rcv' = [rcv EXCEPT !.apiRet = "err", !.main = AfterShutdown(TRUE)]
    /\ UNCHANGED tvars
    /\ UNCHANGED svars
    /\ UNCHANGED gvars
    /\ UNCHANGED lvars
    /\ UNCHANGED qvars
    /\ UNCHANGED mvars
    /\ UNCHANGED cvars
    /\ UNCHANGED kvars
    /\ UNCHANGED xvars
    /\ UNCHANGED hvars
    /\ UNCHANGED evars
    /\ UNCHANGED ivars
    /\ UNCHANGED avars
    /\ UNCHANGED bvars
    /\ UNCHANGED rvars

\* startHTTPServer: r.httpServer = &http.Server{...}.
HTTPAssign ==
    /\ Running
    /\ rcv.hpc = "go"
    /\ rcv' = [rcv EXCEPT !.httpServer = TRUE, !.hpc = "assigned"]
    /\ UNCHANGED tvars
    /\ UNCHANGED svars
    /\ UNCHANGED gvars
    /\ UNCHANGED lvars
    /\ UNCHANGED qvars
    /\ UNCHANGED mvars
    /\ UNCHANGED cvars
    /\ UNCHANGED kvars
    /\ UNCHANGED xvars
    /\ UNCHANGED hvars
    /\ UNCHANGED evars
    /\ UNCHANGED ivars
    /\ UNCHANGED avars
    /\ UNCHANGED bvars
    /\ UNCHANGED rvars

\* startHTTPServer: r.httpServer.ListenAndServe().  On a server that was
\* shut down it returns ErrServerClosed without listening; else it serves,
\* or fails to bind the port.
HTTPListenAndServe ==
    /\ Running
    /\ rcv.hpc = "assigned"
    /\ IF rcv.httpShut
       THEN rcv' = [rcv EXCEPT !.hpc = "closed"]
       ELSE \E ok \in BOOLEAN :
               rcv' = [rcv EXCEPT !.hpc = IF ok THEN "serving" ELSE "failed"]
    /\ UNCHANGED tvars
    /\ UNCHANGED svars
    /\ UNCHANGED gvars
    /\ UNCHANGED lvars
    /\ UNCHANGED qvars
    /\ UNCHANGED mvars
    /\ UNCHANGED cvars
    /\ UNCHANGED kvars
    /\ UNCHANGED xvars
    /\ UNCHANGED hvars
    /\ UNCHANGED evars
    /\ UNCHANGED ivars
    /\ UNCHANGED avars
    /\ UNCHANGED bvars
    /\ UNCHANGED rvars

\* startGRPCServer: net.Listen.
GRPCListen ==
    /\ Running
    /\ rcv.gpc = "go"
    /\ \E ok \in BOOLEAN :
          rcv' = [rcv EXCEPT !.gpc = IF ok THEN "listening" ELSE "failed"]
    /\ UNCHANGED tvars
    /\ UNCHANGED svars
    /\ UNCHANGED gvars
    /\ UNCHANGED lvars
    /\ UNCHANGED qvars
    /\ UNCHANGED mvars
    /\ UNCHANGED cvars
    /\ UNCHANGED kvars
    /\ UNCHANGED xvars
    /\ UNCHANGED hvars
    /\ UNCHANGED evars
    /\ UNCHANGED ivars
    /\ UNCHANGED avars
    /\ UNCHANGED bvars
    /\ UNCHANGED rvars

\* startGRPCServer: r.grpcServer = grpc.NewServer() and the registrations.
GRPCAssign ==
    /\ Running
    /\ rcv.gpc = "listening"
    /\ rcv' = [rcv EXCEPT !.grpcServer = TRUE, !.gpc = "assigned"]
    /\ UNCHANGED tvars
    /\ UNCHANGED svars
    /\ UNCHANGED gvars
    /\ UNCHANGED lvars
    /\ UNCHANGED qvars
    /\ UNCHANGED mvars
    /\ UNCHANGED cvars
    /\ UNCHANGED kvars
    /\ UNCHANGED xvars
    /\ UNCHANGED hvars
    /\ UNCHANGED evars
    /\ UNCHANGED ivars
    /\ UNCHANGED avars
    /\ UNCHANGED bvars
    /\ UNCHANGED rvars

\* startGRPCServer: r.grpcServer.Serve(lis).  On a server that was stopped
\* it closes the listener and returns ErrServerStopped.
GRPCServe ==
    /\ Running
    /\ rcv.gpc = "assigned"
    /\ rcv' = [rcv EXCEPT !.gpc = IF rcv.grpcStopped THEN "stopped"
                                  ELSE "serving"]
    /\ UNCHANGED tvars
    /\ UNCHANGED svars
    /\ UNCHANGED gvars
    /\ UNCHANGED lvars
    /\ UNCHANGED qvars
    /\ UNCHANGED mvars
    /\ UNCHANGED cvars
    /\ UNCHANGED kvars
    /\ UNCHANGED xvars
    /\ UNCHANGED hvars
    /\ UNCHANGED evars
    /\ UNCHANGED ivars
    /\ UNCHANGED avars
    /\ UNCHANGED bvars
    /\ UNCHANGED rvars

\* What an unsynchronised read of a server field can see: nil while the
\* field is not assigned; after the assignment of the other goroutine, with
\* no happens-before edge to the read, the server or still nil.
ReadField(assigned) == IF assigned THEN {TRUE, FALSE} ELSE {FALSE}

\* Stop: if r.httpServer != nil { r.httpServer.Shutdown(ctx) }.
StopHTTP ==
    /\ Running
    /\ rcv.main = "stop"
    /\ rcv.stop = "none"
    /\ \E seen \in ReadField(rcv.httpServer) :
          rcv' = [rcv EXCEPT !.stop = "http",
                             !.httpShut = seen,
                             !.hpc = IF seen /\ @ = "serving" THEN "closed"
                                     ELSE @]
    /\ UNCHANGED tvars
    /\ UNCHANGED svars
    /\ UNCHANGED gvars
    /\ UNCHANGED lvars
    /\ UNCHANGED qvars
    /\ UNCHANGED mvars
    /\ UNCHANGED cvars
    /\ UNCHANGED kvars
    /\ UNCHANGED xvars
    /\ UNCHANGED hvars
    /\ UNCHANGED evars
    /\ UNCHANGED ivars
    /\ UNCHANGED avars
    /\ UNCHANGED bvars
    /\ UNCHANGED rvars

\* Stop: if r.grpcServer != nil { r.grpcServer.GracefulStop() }; return nil.
StopGRPC ==
    /\ Running
    /\ rcv.stop = "http"
    /\ \E seen \in ReadField(rcv.grpcServer) :
          rcv' = [rcv EXCEPT !.stop = "returned",
                             !.grpcStopped = seen,
                             !.gpc = IF seen /\ @ = "serving" THEN "stopped"
                                     ELSE @]
    /\ UNCHANGED tvars
    /\ UNCHANGED svars
    /\ UNCHANGED gvars
    /\ UNCHANGED lvars
    /\ UNCHANGED qvars
    /\ UNCHANGED mvars
    /\ UNCHANGED cvars
    /\ UNCHANGED kvars
    /\ UNCHANGED xvars
    /\ UNCHANGED hvars
    /\ UNCHANGED evars
    /\ UNCHANGED ivars
    /\ UNCHANGED avars
    /\ UNCHANGED bvars
    /\ UNCHANGED rvars

\* main logs "Server stopped" and returns; the process ends.
MainReturn ==
    /\ Running
    /\ rcv.stop = "returned"
    /\ rcv' = [rcv EXCEPT !.main = "returned"]
    /\ UNCHANGED tvars
    /\ UNCHANGED svars
    /\ UNCHANGED gvars
    /\ UNCHANGED lvars
    /\ UNCHANGED qvars
    /\ UNCHANGED mvars
    /\ UNCHANGED cvars
    /\ UNCHANGED kvars
    /\ UNCHANGED xvars
    /\ UNCHANGED hvars
    /\ UNCHANGED evars
    /\ UNCHANGED ivars
    /\ UNCHANGED avars
    /\ UNCHANGED bvars
    /\ UNCHANGED rvars

NextLifecycle ==
    \/ Start \/ APIStart \/ APIListenAndServe \/ APIAccept \/ APIFinish
    \/ ExitOnServerError \/ Signal \/ ShutdownDrained \/ ShutdownTimedOut
    \/ HTTPAssign \/ HTTPListenAndServe
    \/ GRPCListen \/ GRPCAssign \/ GRPCServe
    \/ StopHTTP \/ StopGRPC \/ MainReturn

SpecLifecycle == InitLifecycle /\ [][NextLifecycle]_vars

\* srv.Shutdown returns: the requests in flight end, or the timer of
\* context.WithTimeout(ctx, 10*time.Second) fires.
SpecLifecycleFair ==
    SpecLifecycle /\ WF_vars(ShutdownDrained \/ ShutdownTimedOut)

\* ------------------------------------------------ SpecRetry
\* Log and metric export requests of one record or more.
ExportPayloads(endpoint) ==
    IF endpoint = "/v1/logs"
    THEN UNION {[1..n -> OtlpLogs] : n \in 1..MaxExportRecords}
    ELSE {<<[res |-> 1, name |-> "m1", type |-> type, dps |-> dps]>> :
             type \in MetricTypes,
             dps \in UNION {[1..n -> DataPoints] : n \in 1..MaxExportRecords}}

\* The table an endpoint inserts into.
TableOf(endpoint) == IF endpoint = "/v1/logs" THEN "logs" ELSE "metrics"

\* One send of the request: the handler runs on the store as it is.
Attempt(endpoint, payload, r) ==
    [status |-> r.status, inserted |-> r.inserted,
     pre |-> CurrentDb.rows[TableOf(endpoint)],
     post |-> r.db.rows[TableOf(endpoint)]]

\* An exporter sends a log or metric export request that decodes.
SendExport ==
    /\ rt = <<>>
    /\ \E endpoint \in {"/v1/logs", "/v1/metrics"} :
          \E payload \in ExportPayloads(endpoint) :
              \E r \in handleHTTP(endpoint,
                                  [read |-> TRUE, proto |-> TRUE,
                                   payload |-> payload], CurrentDb) :
                  /\ rt' = [endpoint |-> endpoint, payload |-> payload,
                            attempts |-> <<Attempt(endpoint, payload, r)>>]
                  /\ dbLogs' = r.db.rows["logs"]
                  /\ dbMetrics' = r.db.rows["metrics"]
                  /\ seqs' = r.db.seqs
    /\ UNCHANGED <<lq, lrows, ltotal, lt, ag, catalog, mig>>
    /\ UNCHANGED tvars
    /\ UNCHANGED svars
    /\ UNCHANGED gvars
    /\ UNCHANGED qvars
    /\ UNCHANGED kvars
    /\ UNCHANGED xvars
    /\ UNCHANGED hvars
    /\ UNCHANGED evars
    /\ UNCHANGED ivars
    /\ UNCHANGED avars
    /\ UNCHANGED bvars
    /\ UNCHANGED ovars

\* The exporter sends the same request again after a server error.
RetryExport ==
    /\ rt # <<>>
    /\ Len(rt.attempts) < MaxAttempts
    /\ rt.attempts[Len(rt.attempts)].status = 500
    /\ \E r \in handleHTTP(rt.endpoint,
                            [read |-> TRUE, proto |-> TRUE,
                             payload |-> rt.payload], CurrentDb) :
          /\ rt' = [rt EXCEPT !.attempts =
                        Append(@, Attempt(rt.endpoint, rt.payload, r))]
          /\ dbLogs' = r.db.rows["logs"]
          /\ dbMetrics' = r.db.rows["metrics"]
          /\ seqs' = r.db.seqs
    /\ UNCHANGED <<lq, lrows, ltotal, lt, ag, catalog, mig>>
    /\ UNCHANGED tvars
    /\ UNCHANGED svars
    /\ UNCHANGED gvars
    /\ UNCHANGED qvars
    /\ UNCHANGED kvars
    /\ UNCHANGED xvars
    /\ UNCHANGED hvars
    /\ UNCHANGED evars
    /\ UNCHANGED ivars
    /\ UNCHANGED avars
    /\ UNCHANGED bvars
    /\ UNCHANGED ovars

NextRetry == SendExport \/ RetryExport

SpecRetry == Init /\ [][NextRetry]_vars

\* ------------------------------------------------ SpecTraceHandler
\* What a statement of GetTraceByID can meet: no failure, a failure of the
\* query or scan of the trace row, a failure of the query or scan of the
\* spans.
StorageFaults == {"none", "row", "spans"}

\* TracesStore.GetTraceByID on the committed tables: the possible returns.
\* QueryRowContext(...).Scan gives sql.ErrNoRows when no row has the id and
\* another error when the statement fails; getSpansByTraceID's error is
\* returned as it is.
StoreGetTraceByID(tblTraces, tblSpans, traceID, fault) ==
    IF fault = "row"
    THEN {[err |-> "failed to query trace", trace |-> <<>>]}
    ELSE IF traceID \notin DOMAIN tblTraces
    THEN {[err |-> "trace not found", trace |-> <<>>]}
    ELSE IF fault = "spans"
    THEN {[err |-> "failed to query spans", trace |-> <<>>]}
    ELSE {[err |-> "",
           trace |-> [ScanTrace(tblTraces[traceID]) EXCEPT !.Spans = spans]] :
               spans \in getSpansByTraceID(tblSpans, traceID)}

\* TracesHandler.GetTraceByID: every error of the store is answered 404
\* "Trace not found", a trace is answered 200.
HandlerGetTraceByID(r) ==
    IF r.err # ""
    THEN [status |-> 404, body |-> "Trace not found"]
    ELSE [status |-> 200, body |-> r.trace]

\* One GET /api/traces/{id}.
HandleGetTraceByID ==
    /\ tg = <<>>
    /\ \E id \in TraceIDs, fault \in StorageFaults :
          \E r \in StoreGetTraceByID(dbTraces, dbSpans, id, fault) :
              tg' = [id |-> id, fault |-> fault, err |-> r.err,
                     hasRow |-> id \in DOMAIN dbTraces,
                     status |-> HandlerGetTraceByID(r).status,
                     body |-> HandlerGetTraceByID(r).body]
    /\ UNCHANGED tvars
    /\ UNCHANGED svars
    /\ UNCHANGED gvars
    /\ UNCHANGED lvars
    /\ UNCHANGED qvars
    /\ UNCHANGED mvars
    /\ UNCHANGED cvars
    /\ UNCHANGED kvars
    /\ UNCHANGED xvars
    /\ UNCHANGED hvars
    /\ UNCHANGED evars
    /\ UNCHANGED ivars
    /\ UNCHANGED avars
    /\ UNCHANGED rvars
    /\ UNCHANGED ovars

NextTraceHandler == InsertTraceCommitted \/ HandleGetTraceByID

SpecTraceHandler == Init /\ [][NextTraceHandler]_vars

\* ------------------------------------------------ SpecMerge
\* A Go map value is a reference.  The heap is the sequence of the maps that
\* exist, a reference is an index into it, and NilRef is the nil map.
NilRef == 0
AttrKeys == {"env", "host"}
AttrValues == {"dev", "prod"}
AttrMaps == UNION {[ks -> AttrValues] : ks \in SUBSET AttrKeys}

\* The map a reference stands for.
Deref(heap, r) == IF r = NilRef THEN NilMap ELSE MkMap(heap[r])

\* A merge that copies m2 into m1 and returns m1 when m1 is not nil.
mergeAttributesInPlace(heap, m1, m2) ==
    IF m1 = NilRef
    THEN [heap |-> Append(heap,
                          mergeAttributes(Deref(heap, m1), Deref(heap, m2)).kv),
          result |-> Len(heap) + 1]
    ELSE [heap |-> [heap EXCEPT ![m1] =
                        mergeAttributes(Deref(heap, m1), Deref(heap, m2)).kv],
          result |-> m1]

\* mergeAttributes on the heap: result := make(map[string]interface{}) is a
\* new map, the two range loops copy m1 and then m2 into it; ranging over a
\* nil map is ranging over no entry.
mergeAttributesOnHeap(heap, m1, m2) ==
    [heap |-> Append(heap,
                     mergeAttributes(Deref(heap, m1), Deref(heap, m2)).kv),
     result |-> Len(heap) + 1]

\* m[k] = v on the map a reference stands for.
MapStore(heap, r, k, v) ==
    [heap EXCEPT ![r] = [x \in DOMAIN heap[r] \cup {k} |->
                            IF x = k THEN v ELSE heap[r][x]]]

\* Two maps exist; m1 is nil or the first, m2 is nil, the first or the second.
InitMerge ==
    /\ mg \in {[heap |-> <<a, b>>, pre |-> <<a, b>>, m1 |-> r1, m2 |-> r2,
                called |-> FALSE, result |-> NilRef, ret |-> <<>>,
                writes |-> 0] :
                   a \in AttrMaps, b \in AttrMaps,
                   r1 \in {NilRef, 1}, r2 \in {NilRef, 1, 2}}
    /\ TransformIdle
    /\ StoreIdle
    /\ LogsIdle
    /\ MetricsIdle
    /\ SchemaIdle
    /\ CompareIdle
    /\ MetricsTransformIdle
    /\ ReceiverIdle
    /\ EndToEndIdle
    /\ InsertLogsIdle
    /\ TraceHandlerIdle
    /\ RetryIdle
    /\ LifecycleIdle

\* The call mergeAttributes(m1, m2); ret is the map it returned, as returned.
CallMergeAttributes ==
    /\ mg # <<>>
    /\ ~mg.called
    /\ LET out == mergeAttributesOnHeap(mg.heap, mg.m1, mg.m2)
       IN mg' = [mg EXCEPT !.heap = out.heap, !.result = out.result,
                           !.ret = out.heap[out.result], !.called = TRUE]
    /\ UNCHANGED tvars
    /\ UNCHANGED svars
    /\ UNCHANGED gvars
    /\ UNCHANGED lvars
    /\ UNCHANGED qvars
    /\ UNCHANGED mvars
    /\ UNCHANGED cvars
    /\ UNCHANGED kvars
    /\ UNCHANGED xvars
    /\ UNCHANGED hvars
    /\ UNCHANGED evars
    /\ UNCHANGED ivars
    /\ UNCHANGED bvars
    /\ UNCHANGED rvars
    /\ UNCHANGED ovars

\* The caller writes an entry of the map it got back.
WriteResult ==
    /\ mg # <<>>
    /\ mg.called
    /\ mg.writes < MaxWrites
    /\ \E k \in AttrKeys, v \in AttrValues :
          mg' = [mg EXCEPT !.heap = MapStore(mg.heap, mg.result, k, v),
                           !.writes = @ + 1]
    /\ UNCHANGED tvars
    /\ UNCHANGED svars
    /\ UNCHANGED gvars
    /\ UNCHANGED lvars
    /\ UNCHANGED qvars
    /\ UNCHANGED mvars
    /\ UNCHANGED cvars
    /\ UNCHANGED kvars
    /\ UNCHANGED xvars
    /\ UNCHANGED hvars
    /\ UNCHANGED evars
    /\ UNCHANGED ivars
    /\ UNCHANGED bvars
    /\ UNCHANGED rvars
    /\ UNCHANGED ovars

NextMerge == CallMergeAttributes \/ WriteResult

SpecMerge == InitMerge /\ [][NextMerge]_vars

\* ================================================= properties, SpecTransform
\* Indexes of the input spans that carry trace id tid.
InputOf(tid) == {k \in DOMAIN td : td[k].traceID = tid}

\* C1: every emitted aggregate has duration_ms = end_time - start_time in
\* milliseconds, whichever bound a later span of the trace widened.
C1_DurationIsEndMinusStart ==
    tpc = "done" =>
        \A i \in DOMAIN result :
            result[i].DurationMs
                = Milliseconds(result[i].EndTime - result[i].StartTime)

\* C2: every emitted aggregate has error_count = the number of spans of its
\* trace id in the batch whose status code is Error, the first-seen span
\* included.
C2_ErrorCountCountsErrorSpans ==
    tpc = "done" =>
        \A i \in DOMAIN result :
            result[i].ErrorCount
                = Cardinality({k \in InputOf(result[i].TraceID) :
                                  td[k].status = StatusCodeError})

\* C3: exactly one aggregate per distinct trace id; span_count = number of
\* input spans with that trace id = length of the attached span list; every
\* input span is in exactly one list.
C3_OneAggregatePerTrace ==
    tpc = "done" =>
        /\ {result[i].TraceID : i \in DOMAIN result}
              = {td[k].traceID : k \in DOMAIN td}
        /\ \A i, j \in DOMAIN result :
              result[i].TraceID = result[j].TraceID => i = j
        /\ \A i \in DOMAIN result :
              /\ result[i].SpanCount = Cardinality(InputOf(result[i].TraceID))
              /\ result[i].SpanCount = Len(result[i].Spans)
        /\ \A k \in DOMAIN td :
              Cardinality({<<i, j>> \in (DOMAIN result) \X (1..Len(td)) :
                              /\ j \in DOMAIN result[i].Spans
                              /\ result[i].Spans[j] = ConvertSpan(td[k])}) = 1

\* Two traces came out, one of them aggregated from several spans.
C3_Witness ==
    /\ tpc = "done"
    /\ Len(result) = 2
    /\ \E i \in DOMAIN result : result[i].SpanCount >= 2

\* The first span of trace id tid in iteration order.
FirstOf(tid) == td[CHOOSE k \in InputOf(tid) : \A o \in InputOf(tid) : k <= o]

\* C22: in every emitted aggregate, service name, operation name and status
\* code are those of the first span of the trace id in iteration order and
\* the attributes are the resource attributes merged with that span's; no
\* later span of the trace changes them.
C22_FirstSpanNamesTheTrace ==
    tpc = "done" =>
        \A i \in DOMAIN result :
            LET first == FirstOf(result[i].TraceID)
            IN /\ result[i].ServiceName
                     = extractServiceName(ResourceAttrs[first.res])
               /\ result[i].OperationName = first.name
               /\ result[i].StatusCode = first.status
               /\ result[i].Attributes
                     = mergeAttributes(ResourceAttrs[first.res], first.attrs)

\* A trace came out whose later span has another resource, name, status
\* and attribute map than its first span.
C22_Witness ==
    /\ tpc = "done"
    /\ \E i \in DOMAIN result :
          \E k \in InputOf(result[i].TraceID) :
              LET first == FirstOf(result[i].TraceID)
              IN /\ td[k].res # first.res
                 /\ td[k].name # first.name
                 /\ td[k].status # first.status
                 /\ td[k].attrs # first.attrs

\* C23: in every emitted aggregate, start_time is the least start time and
\* end_time the greatest end time of the spans of the trace id in the batch,
\* whatever the order of the spans.
C23_StartIsMinEndIsMax ==
    tpc = "done" =>
        \A i \in DOMAIN result :
            /\ \E k \in InputOf(result[i].TraceID) :
                  result[i].StartTime = td[k].start
            /\ \A k \in InputOf(result[i].TraceID) :
                  result[i].StartTime <= td[k].start
            /\ \E k \in InputOf(result[i].TraceID) :
                  result[i].EndTime = td[k].end
            /\ \A k \in InputOf(result[i].TraceID) :
                  result[i].EndTime >= td[k].end

\* A trace of three spans came out whose first span starts after another
\* span of the trace.
C23_Witness ==
    /\ tpc = "done"
    /\ \E i \in DOMAIN result :
          /\ result[i].SpanCount = 3
          /\ result[i].StartTime < FirstOf(result[i].TraceID).start

\* ========================================================== properties, Spec
\* C5: when InsertTrace fails at any step, an error is returned and the
\* committed tables are those of the moment the call began.
C5_FailedInsertLeavesStore ==
    (call.fault \/ call.status = "error") =>
        /\ call.status = "error"
        /\ dbTraces = call.baseTraces
        /\ dbSpans = call.baseSpans

\* A call on a non-empty store failed at its commit, after its upsert and
\* all its span inserts had run in the transaction.
C5_Witness ==
    /\ call.status = "error"
    /\ call.failedAt = "commit"
    /\ Len(call.trace.Spans) >= 1
    /\ call.baseTraces # <<>>
    /\ call.trace.TraceID \in DOMAIN call.baseTraces

\* C6: when an export request is answered with a server error, no trace row
\* and no span of that request is persisted, those of the other traces of
\* the request included.
C6_FailedRequestDropsWholeBatch ==
    resp = "error" =>
        /\ dbTraces = reqBase.traces
        /\ dbSpans = reqBase.spans

\* C7: the stored span of a span id holds the values of the first committed
\* insert of that id; a later insert with the same span id changes no stored
\* span and raises no error (an InsertTrace call only fails when a statement
\* fails in the database, never on the repeated span id).
C7_SpanKeepsFirstInsert ==
    /\ DOMAIN dbSpans = DOMAIN hist.firstSpan
    /\ \A sid \in DOMAIN dbSpans : dbSpans[sid] = hist.firstSpan[sid]
    /\ call.status = "error" => call.fault

\* A committed call carried, with other values, a span id that was already
\* stored for its trace, and carried one span id twice.
C7_Witness ==
    /\ call.status = "ok"
    /\ \E k \in DOMAIN call.trace.Spans :
          /\ call.trace.Spans[k].SpanID \in DOMAIN call.baseSpans
          /\ SpanRow(call.trace.Spans[k]) # dbSpans[call.trace.Spans[k].SpanID]
          /\ call.baseSpans[call.trace.Spans[k].SpanID].trace_id
                = call.trace.TraceID
    /\ \E k \in DOMAIN call.trace.Spans :
          /\ k > 1
          /\ call.trace.Spans[k].SpanID = call.trace.Spans[1].SpanID

\* C8: a committed InsertTrace on a trace id that has a row sets end_time,
\* duration_ms, span_count and error_count to the call's values and keeps
\* service_name, operation_name, start_time, status_code and attributes.
C8_UpsertUpdatesFourColumns ==
    (call.status = "ok" /\ call.trace.TraceID \in DOMAIN call.baseTraces) =>
        LET new == dbTraces[call.trace.TraceID]
            old == call.baseTraces[call.trace.TraceID]
        IN /\ new.end_time = call.trace.EndTime
           /\ new.duration_ms = call.trace.DurationMs
           /\ new.span_count = call.trace.SpanCount
           /\ new.error_count = call.trace.ErrorCount
           /\ new.trace_id = old.trace_id
           /\ new.service_name = old.service_name
           /\ new.operation_name = old.operation_name
           /\ new.start_time = old.start_time
           /\ new.status_code = old.status_code
           /\ new.attributes = old.attributes

\* The second call differed from the stored row in every column.
C8_Witness ==
    /\ call.status = "ok"
    /\ call.trace.TraceID \in DOMAIN call.baseTraces
    /\ LET old == call.baseTraces[call.trace.TraceID]
           row == TraceRow(call.trace)
       IN /\ row.end_time # old.end_time
          /\ row.duration_ms # old.duration_ms
          /\ row.span_count # old.span_count
          /\ row.error_count # old.error_count
          /\ row.service_name # old.service_name
          /\ row.operation_name # old.operation_name
          /\ row.start_time # old.start_time
          /\ row.status_code # old.status_code
          /\ row.attributes # old.attributes

\* ====================================================== properties, SpecRead
\* The spans of a GetTraceByID result, as a set.
ResultSpans == {gres.trace.Spans[j] : j \in DOMAIN gres.trace.Spans}

\* C9 as stated: a reader that finds the trace while only the creating
\* InsertTrace of that id has committed gets all spans of that call.
C9_ReaderSeesAllSpansOfBatch ==
    (gpc = "done" /\ gres.found /\ gres.ncommit = 1) =>
        \A k \in DOMAIN hist.first[gid] :
            \E s \in ResultSpans : s.SpanID = hist.first[gid][k].SpanID

\* C9 amended: a reader finds the row only once the creating call has
\* committed, and then gets exactly the span rows the creating transaction
\* left under that trace id (all spans of the call but those whose span id
\* was already stored), never a part of them; a reader that found no row
\* returns not-found with no trace.
C9_ReaderSeesCommittedBatch ==
    gpc = "done" =>
        /\ gres.found => gres.ncommit >= 1
        /\ (gres.found /\ gres.ncommit = 1) =>
              /\ ResultSpans = {ScanSpan(r) : r \in hist.created[gid]}
              /\ Len(gres.trace.Spans) = Cardinality(hist.created[gid])
        /\ ~gres.found => gres.trace = <<>>

\* The reader asked for the row after the creating call had begun and got
\* the row with both spans of the call.
C9_Witness ==
    /\ gpc = "done"
    /\ gres.found
    /\ gres.ncommit = 1
    /\ Len(gres.trace.Spans) = 2
    /\ Len(hist.first[gid]) = 2

\* C10: GetTraceByID returns not-found when no row has the id; otherwise the
\* row with exactly the stored spans of that trace id, by start time
\* ascending.  Stated for a result whose queries saw the current tables.
C10_GetTraceByIDResult ==
    (gpc = "done" /\ gres.verSpans = hist.ver) =>
        IF ~gres.found
        THEN gid \notin DOMAIN dbTraces
        ELSE /\ gres.verRow = hist.ver =>
                   /\ gid \in DOMAIN dbTraces
                   /\ [gres.trace EXCEPT !.Spans = <<>>] = ScanTrace(dbTraces[gid])
             /\ ResultSpans
                   = {ScanSpan(dbSpans[s]) :
                         s \in {x \in DOMAIN dbSpans : dbSpans[x].trace_id = gid}}
             /\ \A i, j \in DOMAIN gres.trace.Spans :
                   /\ i < j => gres.trace.Spans[i].StartTime
                                  <= gres.trace.Spans[j].StartTime
                   /\ gres.trace.Spans[i] = gres.trace.Spans[j] => i = j

\* A trace came back with two spans of different start times.
C10_Witness ==
    /\ gpc = "done"
    /\ gres.found
    /\ gres.verSpans = hist.ver
    /\ Len(gres.trace.Spans) = 2
    /\ gres.trace.Spans[1].StartTime < gres.trace.Spans[2].StartTime

\* ====================================================== properties, SpecLogs
\* C4: for every store state and every LogFilters value, the total of
\* CountLogs equals the number of rows GetLogs returns with pagination
\* removed.
C4_CountMatchesQuery ==
    lq # <<>> =>
        ltotal = Cardinality({x \in DOMAIN dbLogs : GetLogsWhere(dbLogs[x], lq)})

\* ===================================================== properties, SpecQuery
\* The trace ids of the rows of the last GetTraces result.
QueryIDs == {tq.rows[i].TraceID : i \in DOMAIN tq.rows}

\* A GetTraces call that filters on nothing but the given duration bounds
\* and whose page holds every row.
DurationOnly(f) ==
    /\ f.ServiceName = ""
    /\ ~f.HasErrors
    /\ f.Search = <<>>
    /\ f.StartTime = 0
    /\ f.EndTime = 0
    /\ f.Limit = 100
    /\ f.Offset = 0

\* C11: GetTraces with MinDuration = D returns exactly the traces with
\* duration_ms >= D and with MaxDuration = D exactly those with
\* duration_ms <= D, for every D, 0 and negative values included.
C11_DurationBoundsInclusive ==
    (tq # <<>> /\ DurationOnly(tq.filters)) =>
        /\ tq.filters.MaxDuration = 0 =>
              QueryIDs = {x \in DOMAIN dbTraces :
                             dbTraces[x].duration_ms >= tq.filters.MinDuration}
        /\ tq.filters.MinDuration = 0 =>
              QueryIDs = {x \in DOMAIN dbTraces :
                             dbTraces[x].duration_ms <= tq.filters.MaxDuration}

\* pat is a run of consecutive characters of str.
Substring(str, pat) ==
    \E i \in 0..(Len(str) - Len(pat)) :
        \A k \in 1..Len(pat) : str[i + k] = pat[k]

\* The rows the filters of the claim select: exact service name, has-errors
\* as error_count > 0, search as substring of operation name or trace id,
\* start time within the range.
MatchesFilters(row, f) ==
    /\ f.ServiceName # "" => row.service_name = f.ServiceName
    /\ f.HasErrors => row.error_count > 0
    /\ f.Search # <<>> => \/ Substring(Chars(row.operation_name), f.Search)
                          \/ Substring(Chars(row.trace_id), f.Search)
    /\ f.StartTime # 0 => row.start_time >= f.StartTime
    /\ f.EndTime # 0 => row.start_time <= f.EndTime

\* C24: GetTraces (no duration bound given) returns the traces matching all
\* given filters, sorted by start time descending, and exactly the elements
\* at positions [offset, offset + limit) of that sorted list.
C24_FilteredSortedPage ==
    (tq # <<>> /\ tq.filters.MinDuration = 0 /\ tq.filters.MaxDuration = 0) =>
        \E p \in OrderByStartTimeDesc(
                     {dbTraces[x] : x \in {y \in DOMAIN dbTraces :
                                             MatchesFilters(dbTraces[y],
                                                            tq.filters)}}) :
            tq.rows = [i \in DOMAIN PageOf(p, tq.filters.Limit, tq.filters.Offset)
                         |-> ScanTrace(PageOf(p, tq.filters.Limit,
                                              tq.filters.Offset)[i])]

\* A GetLogs call that filters on nothing but the minimum severity and whose
\* page holds every row.
SeverityOnly(f) ==
    /\ f.StartTime = 0
    /\ f.EndTime = 0
    /\ f.ServiceName = ""
    /\ f.TraceID = ""
    /\ f.SearchText = <<>>
    /\ f.Limit = 100
    /\ f.Offset = 0

\* C12: GetLogs with MinSeverity = S returns only logs with
\* severity_number >= S, and, when nothing else filters and the page holds
\* every row, exactly the stored logs with severity_number >= S (stored
\* severity numbers are OTLP's, never negative).
C12_MinSeverityInclusive ==
    lq # <<>> =>
        /\ \A i \in DOMAIN lrows :
              /\ lrows[i].severity_number >= lq.MinSeverity
              /\ lrows[i] = dbLogs[lrows[i].id]
        /\ SeverityOnly(lq) =>
              {lrows[i].id : i \in DOMAIN lrows}
                 = {x \in DOMAIN dbLogs :
                       dbLogs[x].severity_number >= lq.MinSeverity}

\* A query with the severity of a stored log kept that log and dropped a
\* log of lower severity.
C12_Witness ==
    /\ lq # <<>>
    /\ SeverityOnly(lq)
    /\ lq.MinSeverity = 17
    /\ Len(lrows) = 1
    /\ lrows[1].severity_number = 17
    /\ Len(dbLogs) = 2

\* C13: GetLogsByTraceID(X) returns exactly the stored logs whose trace id
\* is X, each once, in ascending timestamp order; a log without a trace id
\* is in no result.
C13_LogsOfTraceOnly ==
    lt # <<>> =>
        /\ {lt.rows[i].id : i \in DOMAIN lt.rows}
              = {x \in DOMAIN dbLogs : /\ dbLogs[x].trace_id # ""
                                       /\ dbLogs[x].trace_id = lt.traceID}
        /\ \A i \in DOMAIN lt.rows : lt.rows[i] = dbLogs[lt.rows[i].id]
        /\ \A i, j \in DOMAIN lt.rows :
              /\ i < j => lt.rows[i].timestamp <= lt.rows[j].timestamp
              /\ lt.rows[i].id = lt.rows[j].id => i = j

\* The query for t1 returned the one log of t1 and left out a log without a
\* trace id.
C13_Witness ==
    /\ lt # <<>>
    /\ lt.traceID = "t1"
    /\ Len(lt.rows) = 1
    /\ \E x \in DOMAIN dbLogs : dbLogs[x].trace_id = ""

\* =================================================== properties, SpecMetrics
\* The bucket the claim assigns to a row: floor(epoch_seconds / W) * W.
FloorBucket(ts, w) == (ts \div w) * w

\* C14: AggregateMetrics with bucket width W assigns each matching row to
\* the bucket floor(epoch_seconds / W) * W and returns one result per
\* non-empty bucket, ascending by bucket start, whose value is the requested
\* aggregate of the rows of that bucket.
C14_BucketsAreFloored ==
    ag # <<>> =>
        LET w == parseBucketSizeToSeconds(ag.req.BucketSize)
            rows == {dbMetrics[x] : x \in {y \in DOMAIN dbMetrics :
                                             AggregateWhere(dbMetrics[y], ag.req)}}
            buckets == SortAsc({FloorBucket(r.timestamp, w) : r \in rows})
        IN /\ Len(ag.results) = Len(buckets)
           /\ \A i \in DOMAIN buckets :
                 /\ ag.results[i].TimeBucket = buckets[i]
                 /\ ag.results[i].Value
                       = AggValue(AggFunc(ag.req.Aggregation),
                                  {r \in rows :
                                      FloorBucket(r.timestamp, w) = buckets[i]})

\* The aggregation types and bucket widths AggregateMetrics knows.
SupportedAggregations == {"avg", "sum", "min", "max", "count"}
SupportedBuckets ==
    {"1 minute", "5 minutes", "15 minutes", "30 minutes", "1 hour", "6 hours"}

\* C30: in every AggregateMetrics result the value is the aggregate that the
\* result's aggregation_type names, over buckets of the width that the
\* request's time_bucket names; a result never carries a type outside avg,
\* sum, min, max, count, nor answers a width outside the six supported,
\* with another function or width put in its place.
C30_LabelNamesTheAggregate ==
    ag # <<>> =>
        \A i \in DOMAIN ag.results :
            /\ ag.results[i].AggregationType \in SupportedAggregations
            /\ ag.req.BucketSize \in SupportedBuckets
            /\ ag.results[i].Value =
                  AggValue(AggFunc(ag.results[i].AggregationType),
                           {dbMetrics[x] : x \in {y \in DOMAIN dbMetrics :
                               /\ AggregateWhere(dbMetrics[y], ag.req)
                               /\ BucketExpr(dbMetrics[y].timestamp,
                                     parseBucketSizeToSeconds(ag.req.BucketSize))
                                  = ag.results[i].TimeBucket}})

\* =================================================== properties, SpecMigrate
\* C15: a Migrate call on a store on which Migrate has succeeded before
\* returns no error and leaves the catalog (sequences with their next
\* values, tables, indexes) and the rows of every table as they were.
C15_MigrateIsIdempotent ==
    (mig.n >= 2 /\ Migrated.catalog \subseteq mig.pre.catalog) =>
        /\ mig.err = 0
        /\ mig.post = mig.pre

\* A second Migrate ran on a store that holds rows and whose sequence has
\* advanced.
C15_Witness ==
    /\ mig.n >= 2
    /\ Migrated.catalog \subseteq mig.pre.catalog
    /\ mig.pre.rows["logs"] # <<>>
    /\ mig.pre.seqs["logs_id_seq"] > 1

\* =================================================== properties, SpecCompare
\* C16: a compare request with fewer than 2 or more than 4 trace ids is
\* answered 400 without any read of the store; with 2 to 4 ids it passes
\* validation and the traces are fetched in the order of the ids, up to the
\* first one that is not stored.
C16_CompareValidatesCount ==
    (cmp # <<>> /\ cmp.body.json) =>
        LET ids == cmp.body.trace_ids
        IN IF Len(ids) < 2 \/ Len(ids) > 4
           THEN cmp.status = 400 /\ cmp.reads = <<>>
           ELSE /\ cmp.status \in {200, 404}
                /\ cmp.reads # <<>>
                /\ Len(cmp.reads) <= Len(ids)
                /\ \A i \in DOMAIN cmp.reads : cmp.reads[i] = ids[i]
                /\ cmp.status = 200 =>
                      /\ cmp.reads = ids
                      /\ Len(cmp.traces) = Len(ids)
                      /\ \A i \in DOMAIN ids : cmp.traces[i].TraceID = ids[i]

\* Five ids, all of a stored trace, were rejected.
C16_Witness ==
    /\ cmp # <<>>
    /\ cmp.body.json
    /\ Len(cmp.body.trace_ids) = 5
    /\ \A i \in DOMAIN cmp.body.trace_ids : cmp.body.trace_ids[i] \in DOMAIN dbTraces
    /\ cmp.status = 400

\* ========================================== properties, SpecTransformMetrics
RECURSIVE DataPointCount(_)
DataPointCount(batch) ==
    IF batch = <<>> THEN 0
    ELSE Len(Head(batch).dps) + DataPointCount(Tail(batch))

\* C17: for a batch of gauges, sums, histograms, exponential histograms and
\* summaries, TransformMetrics returns, and returns exactly one MetricRecord
\* per data point, a data point without attributes included.
C17_OneRecordPerDataPoint ==
    mpc # "loop" =>
        /\ mpc = "done"
        /\ Len(metrics) = DataPointCount(md)

\* =================================================== properties, SpecReceiver
\* C18: when the body of a request on /v1/traces, /v1/logs or /v1/metrics
\* does not decode, the answer is 400 and the store is as before: nothing
\* was transformed and nothing inserted.
C18_UndecodableBodyIsRejected ==
    (http # <<>> /\ http.body.read /\ ~http.body.proto) =>
        /\ http.status = 400
        /\ ~http.transformed
        /\ http.inserted = 0
        /\ CurrentDb = http.pre

\* A body that does not decode, holding a log record as far as it was
\* decoded, arrived at a store that holds a log.
C18_Witness ==
    /\ http # <<>>
    /\ http.body.read
    /\ ~http.body.proto
    /\ http.endpoint = "/v1/logs"
    /\ http.body.payload # <<>>
    /\ http.pre.rows["logs"] # <<>>
    /\ http.status = 400

\* =================================================== properties, SpecEndToEnd
\* C19: after the export of root span A and child span B (in either span
\* order) into the empty store, the trace read by its id has span_count 2,
\* error_count 0 and both spans in ascending start order, A without a
\* parent id and B with A's id as its parent_span_id.
C19_RootAndChildReadBack ==
    (exp # <<>> /\ readBack # <<>> /\ readBack.id = "t1") =>
        /\ readBack.found
        /\ readBack.trace.SpanCount = 2
        /\ readBack.trace.ErrorCount = 0
        /\ Len(readBack.trace.Spans) = 2
        /\ readBack.trace.Spans[1].StartTime <= readBack.trace.Spans[2].StartTime
        /\ \E i, j \in 1..2 :
              /\ readBack.trace.Spans[i].SpanID = "A"
              /\ readBack.trace.Spans[i].ParentSpanID = ""
              /\ readBack.trace.Spans[j].SpanID = "B"
              /\ readBack.trace.Spans[j].ParentSpanID = "A"

\* The child came first in the export and the trace was read back.
C19_Witness ==
    /\ exp # <<>>
    /\ exp[1].spanID = "B"
    /\ readBack # <<>>
    /\ readBack.id = "t1"
    /\ readBack.found

\* ================================================= properties, SpecInsertLogs
\* C20: InsertLogs stores all or nothing.  When it returns nil, table logs
\* is what it was plus one row per record of the batch, in order; when it
\* returns an error, table logs is what it was, whichever step failed; on an
\* empty batch it returns nil and changes nothing.  Until it returns, table
\* logs shows no row of it.
C20_InsertLogsAllOrNothing ==
    /\ ~icall.returned => dbLogs = icall.pre
    /\ icall.returned =>
          /\ icall.batch = <<>> => ~icall.err
          /\ icall.err => dbLogs = icall.pre
          /\ ~icall.err =>
                /\ Len(dbLogs) = Len(icall.pre) + Len(icall.batch)
                /\ SubSeq(dbLogs, 1, Len(icall.pre)) = icall.pre
                /\ \A i \in DOMAIN icall.batch :
                      LET row == dbLogs[Len(icall.pre) + i]
                      IN row = LogRow(row.id, icall.batch[i])

\* A batch of two failed at its second record, on a store that holds rows.
C20_Witness ==
    /\ icall.returned
    /\ icall.err
    /\ Len(icall.batch) = 2
    /\ iidx = 1
    /\ icall.pre # <<>>

\* ===================================================== properties, SpecRetry
\* The records the request of rt transforms to.
ExportRecords ==
    IF rt.endpoint = "/v1/logs" THEN TransformLogs(rt.payload)
    ELSE TransformMetrics(rt.payload).records

\* A row without its id.
WithoutID(row) == [f \in DOMAIN row \ {"id"} |-> row[f]]

\* The row of a record, without its id.
RowOfRecord(rec) ==
    IF rt.endpoint = "/v1/logs"
    THEN [timestamp |-> rec.Timestamp, trace_id |-> rec.TraceID,
          severity_number |-> rec.SeverityNumber, body |-> rec.Body,
          service_name |-> rec.ServiceName]
    ELSE [timestamp |-> rec.Timestamp, metric_name |-> rec.MetricName,
          service_name |-> rec.ServiceName, value |-> rec.Value]

\* C27: when the insert of the k-th log or metric record of an export request
\* fails, the answer is a server error and the k-1 records inserted before
\* it stay stored; a retry of the same request adds the records it inserts
\* as new rows, so the k-1 records are stored a second time.
C27_PartialInsertsStayAndRepeat ==
    (rt # <<>> /\ ~TransformMetrics(IF rt.endpoint = "/v1/logs" THEN <<>>
                                    ELSE rt.payload).panic) =>
        /\ \A a \in DOMAIN rt.attempts :
              LET at == rt.attempts[a]
              IN /\ at.status = 500 <=> at.inserted < Len(ExportRecords)
                 /\ at.status \in {200, 500}
                 /\ Len(at.post) = Len(at.pre) + at.inserted
                 /\ \A i \in DOMAIN at.pre : at.post[i] = at.pre[i]
                 /\ \A i \in 1..at.inserted :
                       WithoutID(at.post[Len(at.pre) + i]) =
                           RowOfRecord(ExportRecords[i])
                 /\ a > 1 => at.pre = rt.attempts[a - 1].post
        /\ CurrentDb.rows[TableOf(rt.endpoint)] =
               rt.attempts[Len(rt.attempts)].post
        /\ \A i, j \in DOMAIN CurrentDb.rows[TableOf(rt.endpoint)] :
              i # j => CurrentDb.rows[TableOf(rt.endpoint)][i].id #
                       CurrentDb.rows[TableOf(rt.endpoint)][j].id

\* The second record of a request failed after the first was inserted, the
\* request was sent again and the first record is in the table twice.
C27_Witness ==
    /\ rt # <<>>
    /\ Len(rt.attempts) = 2
    /\ Len(ExportRecords) = 2
    /\ rt.attempts[1].status = 500
    /\ rt.attempts[1].inserted = 1
    /\ rt.attempts[2].inserted >= 1
    /\ \E i, j \in DOMAIN CurrentDb.rows[TableOf(rt.endpoint)] :
          /\ i # j
          /\ WithoutID(CurrentDb.rows[TableOf(rt.endpoint)][i]) =
                 RowOfRecord(ExportRecords[1])
          /\ WithoutID(CurrentDb.rows[TableOf(rt.endpoint)][j]) =
                 RowOfRecord(ExportRecords[1])

\* ============================================== properties, SpecTraceHandler
\* C26: GET /api/traces/{id} answers 404 only when no trace row has the id;
\* a lookup that fails with a storage error is answered with a server error.
C26_NotFoundOnlyWithoutRow ==
    tg # <<>> =>
        /\ tg.status = 404 => ~tg.hasRow
        /\ tg.fault # "none" /\ tg.err # "trace not found" => tg.status >= 500

\* The stored span rows of a trace id.
StoredSpansOf(traceID) ==
    {sid \in DOMAIN dbSpans : dbSpans[sid].trace_id = traceID}

\* C28: after any sequence of committed InsertTrace calls every trace row's
\* span_count is the number of stored span rows with its trace id and its
\* error_count the number of those span rows with status Error.
C28_CountsMatchStoredSpans ==
    \A id \in DOMAIN dbTraces :
        /\ dbTraces[id].span_count = Cardinality(StoredSpansOf(id))
        /\ dbTraces[id].error_count =
              Cardinality({sid \in StoredSpansOf(id) :
                              dbSpans[sid].status_code = StatusCodeError})

\* ================================================= properties, SpecLifecycle
\* C21: on a termination signal the shutdown of the query API server returns
\* (drained, or timed out after the 10 seconds) before Stop of the OTLP
\* receiver is invoked, and Stop is invoked whatever the shutdown returned,
\* an error included.
C21_ShutdownThenStop ==
    /\ [](rcv.main = "stop" => rcv.apiRet \in {"ok", "err"})
    /\ [](rcv.stop # "none" => rcv.apiRet \in {"ok", "err"})
    /\ [](rcv.apiRet = "err" => rcv.main \in {"stop", "returned"})
    /\ (rcv.main = "shutdown" ~> rcv.main = "stop")

\* The shutdown of the query API server timed out with a request in flight
\* and Stop ran after it.
C21_Witness ==
    /\ rcv # <<>>
    /\ rcv.apiRet = "err"
    /\ rcv.inflight > 0
    /\ rcv.stop = "returned"

\* C29: for every interleaving of Stop with the two goroutines of Start, once
\* Stop has returned neither listener is serving, and none starts serving
\* later (as long as the process runs).
C29_NothingServesAfterStop ==
    (rcv # <<>> /\ rcv.stop = "returned" /\ rcv.main = "stop") =>
        /\ rcv.hpc # "serving"
        /\ rcv.gpc # "serving"

\* ===================================================== properties, SpecMerge
\* The keys of the map a reference stood for when mergeAttributes was called.
KeysBefore(r) == IF r = NilRef THEN {} ELSE DOMAIN mg.pre[r]

\* C25: mergeAttributes(m1, m2) returns a new map whose keys are the union of
\* the keys of m1 and m2 and whose values are m2's where both have the key;
\* m1 and m2 are as they were, also after later writes to the result and
\* also when m1 or m2 is nil.
C25_MergeIsFreshUnion ==
    (mg # <<>> /\ mg.called) =>
        /\ mg.result \notin {NilRef, mg.m1, mg.m2}
        /\ DOMAIN mg.ret = KeysBefore(mg.m1) \cup KeysBefore(mg.m2)
        /\ \A k \in DOMAIN mg.ret :
              mg.ret[k] = IF k \in KeysBefore(mg.m2) THEN mg.pre[mg.m2][k]
                          ELSE mg.pre[mg.m1][k]
        /\ Deref(mg.heap, mg.m1) = Deref(mg.pre, mg.m1)
        /\ Deref(mg.heap, mg.m2) = Deref(mg.pre, mg.m2)

\* m1 and m2 disagree on a key, and the result was written after the merge
\* and no longer is the map that was returned.
C25_Witness ==
    /\ mg # <<>>
    /\ mg.called
    /\ mg.m1 # NilRef
    /\ mg.m2 # NilRef
    /\ \E k \in KeysBefore(mg.m1) \cap KeysBefore(mg.m2) :
          mg.pre[mg.m1][k] # mg.pre[mg.m2][k]
    /\ mg.writes > 0
    /\ mg.heap[mg.result] # mg.ret

====
